---- MODULE Spec2Model ----
(***************************************************************************)
(* Verification model of the twitch-agent repository.                      *)
(*                                                                         *)
(*   Spec        the poll engine of src/bot/main.py (asyncio tasks: main   *)
(*               loop, !forcepoll / !prompt / vote handlers, chat sender,  *)
(*               poll timers) together with the backend endpoints of       *)
(*               src/backend/main.py it calls over HTTP.                   *)
(*   ResolveSpec end_poll_session started on an arbitrary tally and        *)
(*               timestamp assignment of a poll in its voting window.      *)
(*   StoreSpec   the backend store under the thread pool that runs         *)
(*               FastAPI's synchronous endpoints: move_to_history          *)
(*               statement by statement, next to a client that reads       *)
(*               /history and /queue.                                      *)
(*   IntakeSpec  POST /submit of src/backend/main.py statement by          *)
(*               statement on two threads of the pool, next to /decide,    *)
(*               /move-to-history and /clear.                              *)
(*   UpdatedSpec the store of src/backend/main_updated.py with its         *)
(*               endpoints /auto_approved_actions and /finished.           *)
(*   ScreenSpec  POST /submit with the content of the request: texts and   *)
(*               code are sequences of tokens, screened as the filters of  *)
(*               src/backend/main.py screen the characters they spell.     *)
(*   OrchSpec    from a winning prompt through the orchestrator of         *)
(*               src/orchestrator/orch.py back to POST /submit.            *)
(*   RunnerSpec  poll_loop and execute_snippet_subproc of                  *)
(*               src/runner/runner.py with the worker processes.           *)
(*   ChannelSpec the two hand-off channels APPROVED and APPROVED_PROMPTS:  *)
(*               pushes by /submit and /prompt/win, pulls by two consumers *)
(*               each, and /clear.                                         *)
(*   AutoSpec    the main loop, !forcepoll and the flush of the chat queue *)
(*               with enough prompts for an automatic poll, under the      *)
(*               fairness of the asyncio scheduler.                        *)
(*   ChatSpec    queue_chat and chat_sender_loop of src/bot/main.py.       *)
(*   AdminSpec   the privileged endpoints behind require_admin, with and   *)
(*               without ADMIN_KEY in the environment, next to             *)
(*               move_to_history on the thread pool.                       *)
(*   CleanSpec   prepare_prompt_for_ai applied to a text and to its own    *)
(*               result.                                                   *)
(*   SnippetSpec validate_snippet of src/runner/ast_allowlist.py applied to*)
(*               a snippet.                                                *)
(*   DrainSpec   the cycles of the orchestrator with several approved      *)
(*               prompts waiting in the channel.                           *)
(*   ChatFairSpec ChatSpec under the fairness of the asyncio scheduler.    *)
(*   VoteSpec    POST /vote of src/backend/main.py statement by statement  *)
(*               on two threads of the pool, next to /submit and /decide.  *)
(*   WorkerSpec  execute_snippet_subproc of src/runner/runner.py and the   *)
(*               worker of src/runner/worker_subproc.py on a snippet.      *)
(***************************************************************************)
EXTENDS Naturals, Integers, Sequences, FiniteSets, TLC

VARIABLES
    \* ---- Bot fields (src/bot/main.py:19-30)
    current_poll,      \* list of prompts, None is <<>>
    poll_timer,        \* the asyncio task of the latest timer: a session number, None is 0
    poll_votes,        \* dict index -> count
    pending_prompts,   \* list of prompts
    is_processing,
    chat_queue,        \* asyncio.Queue of outbound messages
    accepting_votes,
    flush_event,       \* the asyncio.Event object self.flush_event refers to (a number)
    scoreboard_task,   \* the session whose scoreboard task is referenced, None is 0
    \* ---- asyncio tasks of the bot
    sess,              \* one record per call of start_poll_session: its starter, timer and scoreboard
    ev_set,            \* the Event objects that have been set
    \* ---- environment
    side,              \* events off the main flow so far
    \* ---- history of the run
    poll_sess,         \* the session whose candidates current_poll holds, 0 if none
    closed,            \* sessions whose poll was reset by end_poll_session
    wins,              \* session -> number of prompt_win calls the backend served for it
    lost,              \* sessions with an announcement that was dropped unsent
    last_vote,         \* why the latest dropped vote was dropped
    \* ---- backend globals (src/backend/main.py:22-27)
    SUBMISSIONS,
    PROMPTS_HISTORY,
    VOTES,
    APPROVED,
    APPROVED_PROMPTS,
    NEXT_ID,
    events,            \* bag of broadcast events
    \* ---- threads of the backend's pool
    mover,             \* the thread serving POST /move-to-history: its position and locals
    seen,              \* what a client's GET /history and following GET /queue returned
    intake,            \* the threads serving POST /submit, and the ids given out so far
    request,           \* the request POST /submit served last, and the calls so far
    orch,              \* the orchestrator: its position and the prompt it holds
    runner,            \* the runner: its position, its task, the workers and the outcomes
    chan,              \* the pulls in flight on the two hand-off channels, and their history
    admin,             \* the ADMIN_KEY of the environment and the privileged call served last
    applied,           \* a function of the code applied to an input: the argument and the results
    sender             \* chat_sender_loop: its position, its message and what reached the chat

botVars == <<current_poll, poll_timer, poll_votes, pending_prompts, is_processing,
             chat_queue, accepting_votes, flush_event, scoreboard_task, sess,
             ev_set, side, poll_sess, closed, wins, lost, last_vote>>
storeVars == <<SUBMISSIONS, PROMPTS_HISTORY, VOTES, APPROVED, APPROVED_PROMPTS,
               NEXT_ID, events>>
pipeVars == <<intake, request, orch, runner, chan, admin, applied, sender>>
threadVars == <<mover, seen, pipeVars>>
vars == <<botVars, storeVars, threadVars>>

----------------------------------------------------------------------------
\* Bounds of the model
MaxPrompts == 5      \* submissions accepted in one run
MaxWork == 3         \* calls of start_poll_session plus events off the main flow
                     \* (failures, rejections, refusals, dropped votes, scoreboard
                     \* announcements) in one run
MaxVotes == 1        \* votes counted in one session
MaxCand == 3         \* candidates of a poll that ResolveSpec starts from
MaxTally == 2        \* tally of a candidate that ResolveSpec starts from
MaxStamp == 2        \* distinct submission times that ResolveSpec starts from
MaxIds == 3          \* prompts submitted in StoreSpec
MaxBatch == 2        \* ids in one call of /move-to-history in StoreSpec
MaxMoves == 2        \* calls of /move-to-history in StoreSpec
MaxCalls == 3        \* calls of /submit in IntakeSpec
MaxClears == 1       \* calls of /clear in IntakeSpec
MaxText == 3         \* tokens of the text of a prompt in ScreenSpec
MaxCode == 2         \* tokens of the code of an actions request in ScreenSpec
MaxScreened == 2     \* calls of /submit in ScreenSpec
MaxOrchPrompts == 1  \* calls of /submit with a prompt in OrchSpec
MaxRunCode == 2      \* tokens of the code of a task in RunnerSpec
MaxTasks == 2        \* calls of /submit with actions in RunnerSpec
MaxMarks == 2        \* calls of /auto_approved_actions and of /finished in UpdatedSpec
MaxAutoPrompts == 7  \* prompts accepted in AutoSpec
MaxChat == 4         \* calls of queue_chat in ChatSpec
MaxAdminCalls == 2   \* privileged calls in AdminSpec
MaxPushes == 2       \* calls of /submit in ChannelSpec and in AdminSpec
MaxWins == 2         \* calls of /prompt/win in ChannelSpec
MaxClean == 3        \* tokens of the text that CleanSpec starts from
MaxSnippet == 3      \* tokens of the snippet that SnippetSpec starts from
MaxWorker == 7       \* pieces of the code that WorkerSpec starts from
MaxVoteCalls == 3    \* calls of /vote in VoteSpec
MaxDrainPrompts == 3 \* prompts submitted in DrainSpec
MaxIdle == 1         \* cycles of the orchestrator that pull nothing, in DrainSpec

\* Program constants
PollSize == 5        \* prompts needed for, and sampled into, an automatic poll
MaxPromptLen == 500  \* characters of a prompt that submit accepts
ForceMin == 2        \* prompts needed by !forcepoll
SendAttempts == 3    \* attempts of the chat sender per message
VoteCommands == 5    \* the vote commands !1 .. !5

None == <<>>

\* The threads of the pool that serve POST /submit.
SubmitThreads == {"t1", "t2"}
\* A thread that serves no request.
IdleSubmit == [pc |-> "idle", type |-> "none", ok |-> FALSE, sid |-> 0]

----------------------------------------------------------------------------
\* Helpers on sequences and functions

Range(f) == {f[x] : x \in DOMAIN f}

Ids(prompts) == {prompts[i].id : i \in DOMAIN prompts}

RECURSIVE Filter(_, _)
\* The elements of sequence q whose position is in keep, in order.
Filter(q, keep) ==
    IF q = <<>> THEN <<>>
    ELSE LET n == Len(q)
             rest == Filter(SubSeq(q, 1, n - 1), keep)
         IN IF n \in keep THEN Append(rest, q[n]) ELSE rest

Min(S) == CHOOSE x \in S : \A y \in S : x <= y
Max(S) == CHOOSE x \in S : \A y \in S : x >= y

----------------------------------------------------------------------------
\* Backend endpoints the bot calls (src/backend/main.py), each served as one step

\* broadcast(event): the event goes to every websocket client; the bag counts them.
broadcast(bag, ev) ==
    IF ev \in DOMAIN bag THEN [bag EXCEPT ![ev] = @ + 1] ELSE bag @@ (ev :> 1)

NewPrompt(sid) ==
    [id |-> sid, type |-> "prompt", status |-> "queued", votes |-> 0, outcome |-> "none"]

\* POST /submit with type "prompt"; ok says whether the text passed the screening.
submit_prompt(ok) ==
    IF ok
    THEN /\ SUBMISSIONS' = SUBMISSIONS @@ (NEXT_ID :> NewPrompt(NEXT_ID))
         /\ NEXT_ID' = NEXT_ID + 1
         /\ events' = broadcast(events, <<"queued", NEXT_ID>>)
    ELSE /\ events' = broadcast(events, <<"auto_rejected_prompt", 0>>)
         /\ UNCHANGED <<SUBMISSIONS, NEXT_ID>>

\* POST /decide with approved = false and the admin key.
decide_reject(sid) ==
    IF sid \in DOMAIN SUBMISSIONS /\ SUBMISSIONS[sid].status = "queued"
    THEN /\ SUBMISSIONS' = [SUBMISSIONS EXCEPT ![sid].status = "rejected"]
         /\ events' = broadcast(events, <<"mod_rejected", sid>>)
    ELSE UNCHANGED <<SUBMISSIONS, events>>

\* The ids move_to_history moves: those in active storage with status "queued".
Movable(ids) ==
    {i \in Range(ids) : i \in DOMAIN SUBMISSIONS /\ SUBMISSIONS[i].status = "queued"}

Processed(rec) == [rec EXCEPT !.status = "processed"]

\* POST /move-to-history, the whole loop as one step.
move_to_history(ids) ==
    LET mv == Movable(ids)
    IN /\ PROMPTS_HISTORY' =
              [i \in DOMAIN PROMPTS_HISTORY \cup mv |->
                  IF i \in mv THEN Processed(SUBMISSIONS[i]) ELSE PROMPTS_HISTORY[i]]
       /\ SUBMISSIONS' = [i \in DOMAIN SUBMISSIONS \ mv |-> SUBMISSIONS[i]]
       /\ VOTES' = [i \in DOMAIN VOTES \ mv |-> VOTES[i]]
       /\ events' = broadcast(events, <<"prompts_moved_to_history", Cardinality(mv)>>)

\* Whether POST /prompt/win finds the id (else it answers 404).
WinnerFound(wid) ==
    \/ wid \in DOMAIN SUBMISSIONS /\ SUBMISSIONS[wid].type = "prompt"
    \/ wid \notin DOMAIN SUBMISSIONS /\ wid \in DOMAIN PROMPTS_HISTORY
       /\ PROMPTS_HISTORY[wid].type = "prompt"

\* POST /prompt/win.
prompt_win(wid) ==
    IF WinnerFound(wid)
    THEN /\ IF wid \in DOMAIN SUBMISSIONS
            THEN /\ SUBMISSIONS' = [SUBMISSIONS EXCEPT ![wid].outcome = "won"]
                 /\ UNCHANGED PROMPTS_HISTORY
            ELSE /\ PROMPTS_HISTORY' = [PROMPTS_HISTORY EXCEPT ![wid].outcome = "won"]
                 /\ UNCHANGED SUBMISSIONS
         /\ APPROVED_PROMPTS' = Append(APPROVED_PROMPTS, wid)
         /\ events' = broadcast(events, <<"prompt_won", wid>>)
    ELSE UNCHANGED <<SUBMISSIONS, PROMPTS_HISTORY, APPROVED_PROMPTS, events>>

----------------------------------------------------------------------------
\* The bot (src/bot/main.py)

Msg(kind, s, i) == <<kind, s, i>>
Flush(s) == Msg("flush", s, 0)
InfoMsg == Msg("info", 0, 0)
IsAnnouncement(m) == m[1] \in {"hdr", "opt", "time"}

\* The messages start_poll_session queues for session s with n candidates.
Announcement(s, n) ==
    <<Msg("hdr", s, 0)>> \o [i \in 1..n |-> Msg("opt", s, i)] \o <<Msg("time", s, 0)>>

\* Whether one more session or event off the main flow fits the bound.
SideRoom == Len(sess) + side < MaxWork

\* get_channel(CHANNEL): the channel, or None while the bot is not joined.
ChannelOutcomes == IF SideRoom THEN {TRUE, FALSE} ELSE {TRUE}
\* An HTTP call: served by the backend, or failed before reaching it.
HttpOutcomes == IF SideRoom THEN {"served", "failed"} ELSE {"served"}

Sessions == DOMAIN sess
\* asyncio.Task.done() of session s's timer task.
TimerDone(s) == sess[s].phase \in {"done", "crashed"}
ScoreDone(s) == sess[s].score # "run"

\* time.time() as read by submit_prompt: two consecutive ids may read the same time.
TimeOf(sid) == (sid + 1) \div 2

\* A choice of n prompts that may take the same prompt more than once.
Sample_WithReplacement(pool, n) ==
    {[i \in 1..n |-> pool[pick[i]]] : pick \in [1..n -> DOMAIN pool]}

\* random.sample(pool, n): any n of the prompts (listed in pool order).
Sample(pool, n) ==
    {Filter(pool, K) : K \in {K \in SUBSET DOMAIN pool : Cardinality(K) = n}}

\* Cancelling the referenced scoreboard task, as start_poll_session and
\* end_poll_session do: the session records and the new scoreboard_task.
CancelScoreboard(ss) ==
    IF scoreboard_task # 0 /\ ~ScoreDone(scoreboard_task)
    THEN [ss EXCEPT ![scoreboard_task].score = "done"]
    ELSE ss
ScoreboardAfterCancel ==
    IF scoreboard_task # 0 /\ ~ScoreDone(scoreboard_task) THEN 0 ELSE scoreboard_task

\* cand records the ids of the prompts the session was started with.
NewSession(who, phase) ==
    [who |-> who, phase |-> phase, score |-> "none", arg |-> <<>>, rs |-> 0,
     cand |-> {}]

\* The tally of the poll before is carried over for the indices it shares.
zeroed_Kept(prompt_list) ==
    [i \in 0..(Len(prompt_list) - 1) |-> IF i \in DOMAIN poll_votes THEN poll_votes[i] ELSE 0]

\* Line 100: {i: 0 for i in range(len(prompt_list))}.
zeroed(prompt_list) == [i \in 0..(Len(prompt_list) - 1) |-> 0]

\* start_poll_session(prompt_list) up to its wait for the flush event; ch is what
\* get_channel returns.
start_poll_session(who, prompt_list, ch, extra) ==
    LET s == Len(sess) + 1
    IN /\ SideRoom
       /\ current_poll' = prompt_list
       /\ poll_votes' = zeroed(prompt_list)
       /\ flush_event' = s
       /\ poll_sess' = s
       /\ scoreboard_task' = ScoreboardAfterCancel
       /\ IF ch
          THEN /\ is_processing' = TRUE
               /\ accepting_votes' = TRUE
               /\ chat_queue' = chat_queue \o Announcement(s, Len(prompt_list)) \o <<Flush(s)>>
               /\ sess' = Append(CancelScoreboard(sess), [NewSession(who, "announce") EXCEPT !.cand = Ids(prompt_list)])
               /\ side' = side
          ELSE /\ is_processing' = FALSE
               /\ accepting_votes' = FALSE
               /\ chat_queue' = chat_queue \o extra
               /\ sess' = Append(CancelScoreboard(sess), [NewSession(who, "aborted") EXCEPT !.cand = Ids(prompt_list)])
               /\ side' = side + 1

\* The main loop is suspended inside its own start_poll_session.
MainWaiting == \E s \in Sessions : sess[s].who = "main" /\ sess[s].phase = "announce"

\* The failsafe's test (main.py:80).
Failsafe == is_processing /\ poll_timer # 0 /\ TimerDone(poll_timer)

\* One iteration of main_processing_loop, up to its sleep or its wait in
\* start_poll_session.  No statement of the try block raises, so the except
\* branch is not taken.
MainIter ==
    /\ ~MainWaiting
    /\ LET processing == is_processing /\ ~Failsafe
       IN IF ~processing /\ Len(pending_prompts) >= PollSize
          THEN \E sample \in Sample(pending_prompts, PollSize) : \E ch \in ChannelOutcomes :
                  start_poll_session("main", sample, ch, <<>>)
          ELSE /\ is_processing' = processing
               /\ UNCHANGED <<current_poll, poll_votes, flush_event, poll_sess,
                              scoreboard_task, accepting_votes, chat_queue, sess, side>>
    /\ UNCHANGED <<poll_timer, pending_prompts, ev_set, closed, wins, lost, last_vote>>
    /\ UNCHANGED storeVars
    /\ UNCHANGED threadVars

\* The !forcepoll command, up to its return or its wait in start_poll_session.
force_poll ==
    /\ IF is_processing \/ Len(pending_prompts) < ForceMin
       THEN /\ SideRoom
            /\ side' = side + 1
            /\ chat_queue' = Append(chat_queue, InfoMsg)
            /\ UNCHANGED <<current_poll, poll_votes, flush_event, poll_sess, scoreboard_task,
                           is_processing, accepting_votes, sess>>
       ELSE \E sample \in Sample(pending_prompts,
                                 IF Len(pending_prompts) < PollSize
                                 THEN Len(pending_prompts) ELSE PollSize) :
               \E ch \in ChannelOutcomes :
                  start_poll_session("force", sample, ch,
                                     <<Msg("forced", Len(sess) + 1, 0)>>)
    /\ UNCHANGED <<poll_timer, pending_prompts, ev_set, closed, wins, lost, last_vote>>
    /\ UNCHANGED storeVars
    /\ UNCHANGED threadVars

\* start_poll_session after its flush event was set: the timer and the scoreboard
\* tasks are created; force_poll then queues its confirmation.
StartResume(s) ==
    /\ sess[s].phase = "announce"
    /\ s \in ev_set
    /\ poll_timer' = s
    /\ scoreboard_task' = s
    /\ sess' = [sess EXCEPT ![s].phase = "timer", ![s].score = "run"]
    /\ chat_queue' = IF sess[s].who = "force"
                     THEN Append(chat_queue, Msg("forced", s, 0)) ELSE chat_queue
    /\ UNCHANGED <<current_poll, poll_votes, pending_prompts, is_processing, accepting_votes,
                   flush_event, ev_set, side, poll_sess, closed, wins, lost,
                   last_vote>>
    /\ UNCHANGED storeVars
    /\ UNCHANGED threadVars

\* ---- chat_sender_loop

\* The sessions marked by a message that leaves the sender unsent.
Dropped(m) == IF IsAnnouncement(m) THEN lost \cup {m[2]} ELSE lost

SenderFrame ==
    /\ UNCHANGED <<current_poll, poll_timer, poll_votes, pending_prompts, is_processing,
                   accepting_votes, flush_event, scoreboard_task, sess, poll_sess, closed,
                   wins, last_vote>>
    /\ UNCHANGED storeVars
    /\ UNCHANGED threadVars

\* The sender takes the flush marker: it sets the event that self.flush_event
\* refers to at that moment and sends nothing.
SenderFlush ==
    /\ chat_queue # <<>>
    /\ Head(chat_queue)[1] = "flush"
    /\ chat_queue' = Tail(chat_queue)
    /\ ev_set' = ev_set \cup {flush_event}
    /\ UNCHANGED <<side, lost>>
    /\ SenderFrame

\* The sender takes a message and channel.send delivers it within SendAttempts attempts.
SendOk ==
    /\ chat_queue # <<>>
    /\ Head(chat_queue)[1] # "flush"
    /\ chat_queue' = Tail(chat_queue)
    /\ UNCHANGED <<ev_set, side, lost>>
    /\ SenderFrame

\* The sender takes a message and gives it up unsent: get_channel returns None,
\* or channel.send raises in each of the SendAttempts attempts.
SendDrop ==
    /\ chat_queue # <<>>
    /\ Head(chat_queue)[1] # "flush"
    /\ SideRoom
    /\ side' = side + 1
    /\ chat_queue' = Tail(chat_queue)
    /\ lost' = Dropped(Head(chat_queue))
    /\ UNCHANGED ev_set
    /\ SenderFrame

\* ---- end_poll_session

\* A winner selection that breaks a tie at random without looking at timestamps.
Winners_NoTimestamp(counts, poll) ==
    IF DOMAIN counts = {} THEN {0}
    ELSE {i \in DOMAIN counts : counts[i] = Max(Range(counts))}

\* The indices end_poll_session may pick as winner_index.
Winners(counts, poll) ==
    IF DOMAIN counts = {} THEN {0}
    ELSE LET max_votes == Max(Range(counts))
             tied == {i \in DOMAIN counts : counts[i] = max_votes}
             earliest_ts == Min({poll[i + 1].timestamp : i \in tied})
             tied_earliest == {i \in tied : poll[i + 1].timestamp = earliest_ts}
         IN IF Cardinality(tied) > 1 THEN tied_earliest ELSE tied

Tied(counts) == Cardinality({i \in DOMAIN counts : counts[i] = Max(Range(counts))}) > 1

ResultMsgs(s, tie) ==
    (IF tie THEN <<Msg("tie", s, 0)>> ELSE <<>>)
    \o <<Msg("winner", s, 0), Msg("text", s, 0), Msg("wish", s, 0)>>

IdList(prompts) == [i \in DOMAIN prompts |-> prompts[i].id]

\* The timer of session s ends its sleep and end_poll_session runs up to its
\* first HTTP call.
EndStart(s) ==
    /\ sess[s].phase = "timer"
    /\ IF current_poll = None
       THEN /\ is_processing' = FALSE
            /\ accepting_votes' = FALSE
            /\ sess' = [sess EXCEPT ![s].phase = "done"]
            /\ UNCHANGED <<chat_queue, scoreboard_task, side>>
       ELSE \E ch \in ChannelOutcomes :
               IF ch
               THEN \E w \in Winners(poll_votes, current_poll) :
                       /\ chat_queue' = chat_queue \o ResultMsgs(poll_sess, Tied(poll_votes))
                       /\ sess' = [sess EXCEPT ![s].phase = "win",
                                               ![s].arg = <<current_poll[w + 1].id>>,
                                               ![s].rs = poll_sess]
                       /\ UNCHANGED <<is_processing, accepting_votes, scoreboard_task, side>>
               ELSE /\ side' = side + 1
                    /\ scoreboard_task' = ScoreboardAfterCancel
                    /\ sess' = [CancelScoreboard(sess) EXCEPT ![s].phase = "move",
                                                              ![s].arg = IdList(current_poll),
                                                              ![s].rs = poll_sess]
                    /\ UNCHANGED <<is_processing, accepting_votes, chat_queue>>
    /\ UNCHANGED <<current_poll, poll_timer, poll_votes, pending_prompts, flush_event,
                   ev_set, poll_sess, closed, wins, lost, last_vote>>
    /\ UNCHANGED storeVars
    /\ UNCHANGED threadVars

\* The call of /prompt/win returns and end_poll_session runs up to its call of
\* /move-to-history.  With current_poll None the TypeError of line 195 is caught
\* and the one of line 206 ends the task.
EndWin(s) ==
    /\ sess[s].phase = "win"
    /\ \E r \in HttpOutcomes :
          IF r = "served"
          THEN /\ prompt_win(sess[s].arg[1])
               /\ wins' = IF WinnerFound(sess[s].arg[1])
                          THEN [wins EXCEPT ![sess[s].rs] = @ + 1] ELSE wins
               /\ side' = side
          ELSE /\ side' = side + 1
               /\ UNCHANGED <<SUBMISSIONS, PROMPTS_HISTORY, APPROVED_PROMPTS, events, wins>>
    /\ scoreboard_task' = ScoreboardAfterCancel
    /\ sess' = IF current_poll = None
               THEN [CancelScoreboard(sess) EXCEPT ![s].phase = "crashed"]
               ELSE [CancelScoreboard(sess) EXCEPT ![s].phase = "move",
                                                   ![s].arg = IdList(current_poll)]
    /\ UNCHANGED <<current_poll, poll_timer, poll_votes, pending_prompts, is_processing,
                   chat_queue, accepting_votes, flush_event, ev_set, poll_sess,
                   closed, lost, last_vote>>
    /\ UNCHANGED <<VOTES, APPROVED, NEXT_ID>>
    /\ UNCHANGED threadVars

\* The call of /move-to-history returns and end_poll_session runs to its end.
EndMove(s) ==
    /\ sess[s].phase = "move"
    /\ \E r \in HttpOutcomes :
          IF r = "served"
          THEN /\ move_to_history(sess[s].arg)
               /\ side' = side
          ELSE /\ side' = side + 1
               /\ UNCHANGED <<SUBMISSIONS, PROMPTS_HISTORY, VOTES, events>>
    /\ IF current_poll = None
       THEN /\ sess' = [sess EXCEPT ![s].phase = "crashed"]
            /\ UNCHANGED <<current_poll, poll_votes, pending_prompts, is_processing,
                           accepting_votes, poll_sess, closed>>
       ELSE /\ pending_prompts' =
                   SelectSeq(pending_prompts, LAMBDA p : p \notin Range(current_poll))
            /\ current_poll' = None
            /\ poll_votes' = <<>>
            /\ is_processing' = FALSE
            /\ accepting_votes' = FALSE
            /\ poll_sess' = 0
            /\ closed' = closed \cup {poll_sess}
            /\ sess' = [sess EXCEPT ![s].phase = "done"]
    /\ UNCHANGED <<poll_timer, chat_queue, flush_event, scoreboard_task, ev_set,
                   wins, lost, last_vote>>
    /\ UNCHANGED <<APPROVED, APPROVED_PROMPTS, NEXT_ID>>
    /\ UNCHANGED threadVars

\* ---- chat commands

Total(counts) ==
    LET RECURSIVE Sum(_)
        Sum(D) == IF D = {} THEN 0
                  ELSE LET d == CHOOSE x \in D : TRUE IN counts[d] + Sum(D \ {d})
    IN Sum(DOMAIN counts)

\* cast_vote's test without its check of accepting_votes.
VoteCounts_NoAccepting(prompt_index) ==
    ~(current_poll = None \/ prompt_index \notin DOMAIN poll_votes)

\* Whether cast_vote counts a vote for prompt_index (main.py:278).
VoteCounts(prompt_index) ==
    ~(current_poll = None \/ prompt_index \notin DOMAIN poll_votes \/ ~accepting_votes)

\* The commands !1 .. !5.
cast_vote(prompt_index) ==
    /\ IF VoteCounts(prompt_index)
       THEN /\ Total(poll_votes) < MaxVotes
            /\ poll_votes' = [poll_votes EXCEPT ![prompt_index] = @ + 1]
            /\ UNCHANGED <<last_vote, side>>
       ELSE /\ SideRoom
            /\ side' = side + 1
            /\ poll_votes' = poll_votes
            /\ last_vote' = IF current_poll = None \/ ~accepting_votes
                            THEN "idle" ELSE "range"
    /\ UNCHANGED <<current_poll, poll_timer, pending_prompts, is_processing, chat_queue,
                   accepting_votes, flush_event, scoreboard_task, sess, ev_set,
                   poll_sess, closed, wins, lost>>
    /\ UNCHANGED storeVars
    /\ UNCHANGED threadVars

\* The !prompt command with a non-empty idea: the call of /submit and what the
\* handler does with the answer.
submit_prompt_cmd(ok) ==
    /\ submit_prompt(ok)
    /\ IF ok
       THEN /\ NEXT_ID <= MaxPrompts
            /\ pending_prompts' = Append(pending_prompts,
                                         [id |-> NEXT_ID, timestamp |-> TimeOf(NEXT_ID)])
            /\ side' = side
       ELSE /\ SideRoom
            /\ side' = side + 1
            /\ pending_prompts' = pending_prompts
    /\ chat_queue' = Append(chat_queue, InfoMsg)
    /\ UNCHANGED <<current_poll, poll_timer, poll_votes, is_processing, accepting_votes,
                   flush_event, scoreboard_task, sess, ev_set, poll_sess,
                   closed, wins, lost, last_vote>>
    /\ UNCHANGED <<PROMPTS_HISTORY, VOTES, APPROVED, APPROVED_PROMPTS>>
    /\ UNCHANGED threadVars

\* A moderator rejects prompt sid through /decide.
Decide(sid) ==
    /\ SideRoom
    /\ side' = side + 1
    /\ sid \in DOMAIN SUBMISSIONS
    /\ decide_reject(sid)
    /\ UNCHANGED <<current_poll, poll_timer, poll_votes, pending_prompts, is_processing,
                   chat_queue, accepting_votes, flush_event, scoreboard_task, sess, ev_set,
                   poll_sess, closed, wins, lost, last_vote>>
    /\ UNCHANGED <<PROMPTS_HISTORY, VOTES, APPROVED, APPROVED_PROMPTS, NEXT_ID>>
    /\ UNCHANGED threadVars

\* scoreboard_loop of session s wakes from its sleep: it stops if no poll is
\* accepting votes, else it queues the vote counts and sleeps again.
ScoreTick(s) ==
    /\ sess[s].score = "run"
    /\ IF ~accepting_votes \/ current_poll = None
       THEN /\ sess' = [sess EXCEPT ![s].score = "done"]
            /\ UNCHANGED <<chat_queue, side>>
       ELSE /\ SideRoom
            /\ side' = side + 1
            /\ sess' = sess
            /\ chat_queue' = Append(chat_queue, Msg("score", s, 0))
    /\ UNCHANGED <<current_poll, poll_timer, poll_votes, pending_prompts, is_processing,
                   accepting_votes, flush_event, scoreboard_task, ev_set,
                   poll_sess, closed, wins, lost, last_vote>>
    /\ UNCHANGED storeVars
    /\ UNCHANGED threadVars

----------------------------------------------------------------------------
\* The poll engine

StoreInit ==
    /\ SUBMISSIONS = <<>>
    /\ PROMPTS_HISTORY = <<>>
    /\ VOTES = <<>>
    /\ APPROVED = <<>>
    /\ APPROVED_PROMPTS = <<>>
    /\ NEXT_ID = 1
    /\ events = <<>>

BotInit ==
    /\ current_poll = None
    /\ poll_timer = 0
    /\ poll_votes = <<>>
    /\ pending_prompts = <<>>
    /\ is_processing = FALSE
    /\ chat_queue = <<>>
    /\ accepting_votes = FALSE
    /\ flush_event = 0
    /\ scoreboard_task = 0
    /\ sess = <<>>
    /\ ev_set = {}
    /\ side = 0
    /\ poll_sess = 0
    /\ closed = {}
    /\ wins = [s \in 1..MaxWork |-> 0]
    /\ lost = {}
    /\ last_vote = "none"

\* The consumers of the hand-off channels: the runner and the orchestrator, and
\* a second client of each endpoint.
Consumers == {"c1", "c2"}

\* No pull is in flight and nothing was pushed.
NoPulls ==
    [cons |-> [c \in Consumers |-> [pc |-> "idle", q |-> "none"]],
     pushed |-> <<>>, returned |-> <<>>, cleared |-> <<>>, blocked |-> 0, answers |-> {}]

\* The value of ADMIN_KEY that a deployment sets, and None: the variable is not
\* set, or the request has no x-admin-key header.
Secret == "secret"
Unset == "none"

\* No privileged call was served; key is os.getenv("ADMIN_KEY").
NoAdmin(key) ==
    [ADMIN_KEY |-> key, calls |-> 0, op |-> "none", header |-> "none", answer |-> 0,
     wiped |-> {}]

\* No function has been applied.
NoApplied == [fn |-> "none", arg |-> <<>>, times |-> 0, once |-> <<>>, twice |-> <<>>,
              valid |-> "none"]

\* No request is being served by the thread pool.
PoolInit ==
    /\ mover = [pc |-> "idle", prompt_ids |-> <<>>, k |-> 0, prompt |-> None,
                moved_count |-> 0, call |-> 0]
    /\ seen = [pc |-> "none", history |-> {}, queue |-> {}, call |-> 0]
    /\ intake = [thr |-> [t \in SubmitThreads |-> IdleSubmit], created |-> <<>>,
                 calls |-> 0]
    /\ request = [type |-> "none", content |-> <<>>, calls |-> 0]
    /\ orch = [pc |-> "drain", latest |-> None, pulled |-> <<>>, cycles |-> 0,
               last |-> [pulled |-> <<>>, posted |-> <<>>]]
    /\ runner = [pc |-> "poll", sub |-> None, process |-> 0, ok |-> FALSE, result |-> "none",
                 workers |-> <<>>, done |-> <<>>]
    /\ chan = NoPulls
    /\ sender = [pc |-> "get", msg |-> None, attempt |-> 0, sending |-> {}, sent |-> <<>>,
                 queued |-> 0, gaveup |-> {}]

ThreadInit == PoolInit /\ admin = NoAdmin(Secret) /\ applied = NoApplied

Init == BotInit /\ StoreInit /\ ThreadInit

Next ==
    \/ MainIter
    \/ force_poll
    \/ \E s \in Sessions : StartResume(s)
    \/ SenderFlush
    \/ SendOk
    \/ SendDrop
    \/ \E s \in Sessions : EndStart(s)
    \/ \E s \in Sessions : EndWin(s)
    \/ \E s \in Sessions : EndMove(s)
    \/ \E i \in 0..(VoteCommands - 1) : cast_vote(i)
    \/ \E ok \in BOOLEAN : submit_prompt_cmd(ok)
    \/ \E sid \in 1..MaxPrompts : Decide(sid)
    \/ \E s \in Sessions : ScoreTick(s)

Spec == Init /\ [][Next]_vars

----------------------------------------------------------------------------
\* The poll engine on its main flow, with the scheduling of asyncio

\* The !prompt command with an idea that the backend accepts.
AutoPrompt ==
    /\ NEXT_ID <= MaxAutoPrompts
    /\ submit_prompt(TRUE)
    /\ pending_prompts' = Append(pending_prompts,
                                 [id |-> NEXT_ID, timestamp |-> TimeOf(NEXT_ID)])
    /\ chat_queue' = Append(chat_queue, InfoMsg)
    /\ UNCHANGED <<current_poll, poll_timer, poll_votes, is_processing, accepting_votes,
                   flush_event, scoreboard_task, sess, ev_set, side, poll_sess,
                   closed, wins, lost, last_vote>>
    /\ UNCHANGED <<PROMPTS_HISTORY, VOTES, APPROVED, APPROVED_PROMPTS>>
    /\ UNCHANGED threadVars

AutoNext ==
    \/ AutoPrompt
    \/ MainIter
    \/ force_poll
    \/ \E s \in Sessions : StartResume(s)
    \/ SenderFlush
    \/ SendOk
    \/ \E s \in Sessions : EndStart(s)
    \/ \E s \in Sessions : EndWin(s)
    \/ \E s \in Sessions : EndMove(s)

\* The event loop runs every task that is ready: the sender takes the next
\* message when one is queued, a task whose event was set or whose sleep or
\* HTTP call ended goes on.
AutoSpec ==
    /\ Init
    /\ [][AutoNext]_vars
    /\ WF_vars(SenderFlush)
    /\ WF_vars(SendOk)
    /\ \A s \in 1..MaxWork : WF_vars(s \in Sessions /\ StartResume(s))

----------------------------------------------------------------------------
\* chat_sender_loop statement by statement, next to the tasks that queue
\* messages (src/bot/main.py:39-69)

\* The message is put where the sender takes the next one from.
queue_chat_Front(q, message) == <<message>> \o q

\* queue_chat: chat_queue.put(message).
queue_chat(q, message) == Append(q, message)

ChatFrame ==
    /\ UNCHANGED <<current_poll, poll_timer, poll_votes, pending_prompts, is_processing,
                   accepting_votes, flush_event, scoreboard_task, sess, side, poll_sess,
                   closed, wins, lost, last_vote>>
    /\ UNCHANGED storeVars
    /\ UNCHANGED <<mover, seen, intake, request, orch, runner, chan, admin, applied>>

\* A task of the bot calls queue_chat with a chat line or with the flush
\* marker; the message carries its place in the order of the calls.
QueueChat(kind) ==
    /\ sender.queued < MaxChat
    /\ chat_queue' = queue_chat(chat_queue, Msg(kind, 0, sender.queued + 1))
    /\ sender' = [sender EXCEPT !.queued = @ + 1]
    /\ UNCHANGED ev_set
    /\ ChatFrame

\* Lines 42-52: the sender takes the next message; the flush marker sets the
\* event and is not sent.
SenderGet ==
    /\ sender.pc = "get"
    /\ chat_queue # <<>>
    /\ chat_queue' = Tail(chat_queue)
    /\ IF Head(chat_queue)[1] = "flush"
       THEN /\ ev_set' = ev_set \cup {flush_event}
            /\ sender' = [sender EXCEPT !.pc = "sleep"]
       ELSE /\ ev_set' = ev_set
            /\ sender' = [sender EXCEPT !.pc = "send", !.msg = Head(chat_queue), !.attempt = 0]
    /\ ChatFrame

\* Lines 55-60: an attempt begins; without a channel the message is given up.
SenderAttempt(channel) ==
    /\ sender.pc = "send"
    /\ sender' = IF channel
                 THEN [sender EXCEPT !.pc = "sending", !.sending = @ \cup {sender.msg}]
                 ELSE [sender EXCEPT !.pc = "sleep", !.msg = None]
    /\ UNCHANGED <<chat_queue, ev_set>>
    /\ ChatFrame

\* The loop of line 53 never runs out.
retry_Forever(attempt) == TRUE

\* Line 53, for attempt in range(3): whether another attempt follows the one
\* that failed.
retry(attempt) == attempt + 1 < SendAttempts

\* Lines 57-63: channel.send returns, or raises; after SendAttempts failures
\* the message is given up.
SenderSent(ok) ==
    /\ sender.pc = "sending"
    /\ sender' =
          IF ok
          THEN [sender EXCEPT !.pc = "sleep", !.msg = None, !.sending = @ \ {sender.msg},
                              !.sent = Append(@, sender.msg)]
          ELSE IF retry(sender.attempt)
               THEN [sender EXCEPT !.pc = "send", !.sending = @ \ {sender.msg},
                                   !.attempt = @ + 1]
               ELSE [sender EXCEPT !.pc = "sleep", !.msg = None, !.sending = @ \ {sender.msg},
                                   !.attempt = 0, !.gaveup = @ \cup {sender.msg[3]}]
    /\ UNCHANGED <<chat_queue, ev_set>>
    /\ ChatFrame

\* Lines 50-52 and 65-66: the pause after a message.
SenderSleep ==
    /\ sender.pc = "sleep"
    /\ sender' = [sender EXCEPT !.pc = "get", !.attempt = 0]
    /\ UNCHANGED <<chat_queue, ev_set>>
    /\ ChatFrame

ChatNext ==
    \/ \E kind \in {"chat", "flush"} : QueueChat(kind)
    \/ SenderGet
    \/ \E channel \in BOOLEAN : SenderAttempt(channel)
    \/ \E ok \in BOOLEAN : SenderSent(ok)
    \/ SenderSleep

ChatSpec == Init /\ [][ChatNext]_vars

\* The sender as asyncio runs it: a task that can go on does go on (a sleep
\* ends, get returns once a message is queued, channel.send returns or raises).
\* Nothing says that a send ever succeeds.
ChatFairSpec ==
    /\ ChatSpec
    /\ WF_vars(SenderGet)
    /\ WF_vars(\E channel \in BOOLEAN : SenderAttempt(channel))
    /\ WF_vars(\E ok \in BOOLEAN : SenderSent(ok))
    /\ WF_vars(SenderSleep)

----------------------------------------------------------------------------
\* end_poll_session on an arbitrary poll

\* A poll of n candidates in its voting window: the timer of session 1 sleeps.
ResolveInit ==
    /\ \E n \in ForceMin..MaxCand :
          /\ \E ts \in [1..n -> 1..MaxStamp] :
                current_poll = [i \in 1..n |-> [id |-> i, timestamp |-> ts[i]]]
          /\ poll_votes \in [0..(n - 1) -> 0..MaxTally]
          /\ SUBMISSIONS = [i \in 1..n |-> NewPrompt(i)]
          /\ NEXT_ID = n + 1
    /\ pending_prompts = current_poll
    /\ poll_timer = 1
    /\ is_processing = TRUE
    /\ chat_queue = <<>>
    /\ accepting_votes = TRUE
    /\ flush_event = 1
    /\ scoreboard_task = 1
    /\ sess = <<[NewSession("main", "timer") EXCEPT !.score = "run"]>>
    /\ ev_set = {1}
    /\ side = 0
    /\ poll_sess = 1
    /\ closed = {}
    /\ wins = [s \in 1..MaxWork |-> 0]
    /\ lost = {}
    /\ last_vote = "none"
    /\ PROMPTS_HISTORY = <<>>
    /\ VOTES = <<>>
    /\ APPROVED = <<>>
    /\ APPROVED_PROMPTS = <<>>
    /\ events = <<>>
    /\ ThreadInit

ResolveNext ==
    \/ \E s \in Sessions : EndStart(s)
    \/ \E s \in Sessions : EndWin(s)
    \/ \E s \in Sessions : EndMove(s)

ResolveSpec == ResolveInit /\ [][ResolveNext]_vars

----------------------------------------------------------------------------
\* The backend store under the thread pool (src/backend/main.py)

Voters == {"viewer"}

\* The ids GET /queue returns.
Queued == {i \in DOMAIN SUBMISSIONS : SUBMISSIONS[i].status = "queued"}

\* The lists of distinct ids of S with at most n entries.
Batches(S, n) ==
    {q \in UNION {[1..k -> S] : k \in 1..n} : \A i, j \in DOMAIN q : i # j => q[i] # q[j]}

\* POST /vote.
vote(sid, user) ==
    IF sid \notin DOMAIN SUBMISSIONS \/ SUBMISSIONS[sid].status # "queued"
    THEN UNCHANGED <<SUBMISSIONS, VOTES, events>>
    ELSE LET voters == (IF sid \in DOMAIN VOTES THEN VOTES[sid] ELSE {}) \cup {user}
         IN /\ VOTES' = [i \in DOMAIN VOTES \cup {sid} |-> IF i = sid THEN voters ELSE VOTES[i]]
            /\ SUBMISSIONS' = [SUBMISSIONS EXCEPT ![sid].votes = Cardinality(voters)]
            /\ events' = broadcast(events, <<"vote", sid>>)

StoreFrame == UNCHANGED <<botVars, APPROVED, APPROVED_PROMPTS, pipeVars>>

\* A thread serves POST /submit of a prompt that passes the screening.
StoreSubmit ==
    /\ NEXT_ID <= MaxIds
    /\ submit_prompt(TRUE)
    /\ UNCHANGED <<PROMPTS_HISTORY, VOTES, mover, seen>>
    /\ StoreFrame

\* A thread serves POST /vote: the user's first vote for sid.
StoreVote(sid, user) ==
    /\ sid \in DOMAIN SUBMISSIONS
    /\ IF sid \in DOMAIN VOTES THEN user \notin VOTES[sid] ELSE TRUE
    /\ vote(sid, user)
    /\ UNCHANGED <<PROMPTS_HISTORY, NEXT_ID, mover, seen>>
    /\ StoreFrame

\* The event loop serves POST /decide that rejects sid.
StoreDecide(sid) ==
    /\ sid \in DOMAIN SUBMISSIONS
    /\ decide_reject(sid)
    /\ UNCHANGED <<PROMPTS_HISTORY, VOTES, NEXT_ID, mover, seen>>
    /\ StoreFrame

pid == mover.prompt_ids[mover.k]

\* A thread starts to serve POST /move-to-history with the list ids (line 302).
MoveCall(ids) ==
    /\ mover.pc = "idle"
    /\ mover.call < MaxMoves
    /\ mover' = [pc |-> "check", prompt_ids |-> ids, k |-> 1, prompt |-> None,
                 moved_count |-> 0, call |-> mover.call + 1]
    /\ UNCHANGED <<storeVars, seen>>
    /\ StoreFrame

\* The test of line 304 on the next id and, when it passes, the copy of lines 306-308.
MoveCheck ==
    /\ mover.pc = "check"
    /\ mover.k <= Len(mover.prompt_ids)
    /\ mover' = IF pid \in Queued
                THEN [mover EXCEPT !.pc = "put", !.prompt = Processed(SUBMISSIONS[pid])]
                ELSE [mover EXCEPT !.k = @ + 1]
    /\ UNCHANGED <<storeVars, seen>>
    /\ StoreFrame

\* Line 309: PROMPTS_HISTORY[pid] = prompt.
MovePut ==
    /\ mover.pc = "put"
    /\ PROMPTS_HISTORY' =
          [i \in DOMAIN PROMPTS_HISTORY \cup {pid} |->
              IF i = pid THEN mover.prompt ELSE PROMPTS_HISTORY[i]]
    /\ mover' = [mover EXCEPT !.pc = "del", !.prompt = None]
    /\ UNCHANGED <<SUBMISSIONS, VOTES, NEXT_ID, events, seen>>
    /\ StoreFrame

\* Line 311: del SUBMISSIONS[pid]; the KeyError for an id that is gone ends the call.
MoveDel ==
    /\ mover.pc = "del"
    /\ SUBMISSIONS' = [i \in DOMAIN SUBMISSIONS \ {pid} |-> SUBMISSIONS[i]]
    /\ mover' = [mover EXCEPT !.pc = IF pid \in DOMAIN SUBMISSIONS THEN "votes" ELSE "idle"]
    /\ UNCHANGED <<PROMPTS_HISTORY, VOTES, NEXT_ID, events, seen>>
    /\ StoreFrame

\* Lines 312-314: the votes of pid are deleted and the id is counted.
MoveDelVotes ==
    /\ mover.pc = "votes"
    /\ VOTES' = [i \in DOMAIN VOTES \ {pid} |-> VOTES[i]]
    /\ mover' = [mover EXCEPT !.pc = "check", !.k = @ + 1, !.moved_count = @ + 1]
    /\ UNCHANGED <<SUBMISSIONS, PROMPTS_HISTORY, NEXT_ID, events, seen>>
    /\ StoreFrame

\* Lines 316-317 after the loop: the broadcast and the answer.
MoveEnd ==
    /\ mover.pc = "check"
    /\ mover.k > Len(mover.prompt_ids)
    /\ events' = broadcast(events, <<"prompts_moved_to_history", mover.moved_count>>)
    /\ mover' = [mover EXCEPT !.pc = "idle"]
    /\ UNCHANGED <<SUBMISSIONS, PROMPTS_HISTORY, VOTES, NEXT_ID, seen>>
    /\ StoreFrame

\* The call of /move-to-history that is being served, 0 if none.
Serving == IF mover.pc = "idle" THEN 0 ELSE mover.call

\* A thread serves the client's GET /history.
history ==
    /\ seen' = [pc |-> "history", history |-> DOMAIN PROMPTS_HISTORY, queue |-> {},
                call |-> Serving]
    /\ UNCHANGED <<storeVars, mover>>
    /\ StoreFrame

\* A thread serves the GET /queue the client sends after the answer of /history.
queue ==
    /\ seen.pc = "history"
    /\ seen' = [seen EXCEPT !.pc = "queue", !.queue = Queued,
                            !.call = IF @ = Serving THEN @ ELSE 0]
    /\ UNCHANGED <<storeVars, mover>>
    /\ StoreFrame

StoreNext ==
    \/ StoreSubmit
    \/ \E sid \in 1..MaxIds : \E user \in Voters : StoreVote(sid, user)
    \/ \E sid \in 1..MaxIds : StoreDecide(sid)
    \/ \E ids \in Batches(DOMAIN SUBMISSIONS, MaxBatch) : MoveCall(ids)
    \/ MoveCheck
    \/ MovePut
    \/ MoveDel
    \/ MoveDelVotes
    \/ MoveEnd
    \/ history
    \/ queue

StoreSpec == Init /\ [][StoreNext]_vars

----------------------------------------------------------------------------
\* POST /submit statement by statement on the threads of the pool, next to
\* /decide, /move-to-history and /clear (src/backend/main.py)

\* The number of events of kind k that were broadcast.
Broadcasts(k) ==
    LET RECURSIVE Sum(_)
        Sum(D) == IF D = {} THEN 0
                  ELSE LET d == CHOOSE x \in D : TRUE
                       IN (IF d[1] = k THEN events[d] ELSE 0) + Sum(D \ {d})
    IN Sum(DOMAIN events)

\* The record submit stores for an item of type "actions".
NewActions(sid) ==
    [id |-> sid, type |-> "actions", status |-> "approved", votes |-> 0, outcome |-> "none"]

IntakeFrame == UNCHANGED <<botVars, mover, seen, request, orch, runner, chan, admin, applied, sender>>

\* A thread takes a request of the given type; ok says whether its content
\* passes the screening of its type.
SubmitCall(t, type, ok) ==
    /\ intake.thr[t].pc = "idle"
    /\ intake.calls < MaxCalls
    /\ intake' = [intake EXCEPT !.calls = @ + 1,
                                !.thr[t] = [pc |-> "screen", type |-> type, ok |-> ok,
                                            sid |-> 0]]
    /\ UNCHANGED storeVars
    /\ IntakeFrame

\* Lines 192-199 and 206-222: the screening; a request that fails it is answered
\* with an error (a prompt in violation is broadcast as auto-rejected).
SubmitScreen(t) ==
    /\ intake.thr[t].pc = "screen"
    /\ IF intake.thr[t].ok
       THEN /\ intake' = [intake EXCEPT !.thr[t].pc = "read"]
            /\ UNCHANGED events
       ELSE /\ intake' = [intake EXCEPT !.thr[t] = IdleSubmit]
            /\ events' = IF intake.thr[t].type = "prompt"
                         THEN broadcast(events, <<"auto_rejected_prompt", 0>>)
                         ELSE events
    /\ UNCHANGED <<SUBMISSIONS, PROMPTS_HISTORY, VOTES, APPROVED, APPROVED_PROMPTS, NEXT_ID>>
    /\ IntakeFrame

\* Lines 200 and 224, first statement: sid = NEXT_ID.
SubmitRead(t) ==
    /\ intake.thr[t].pc = "read"
    /\ intake' = [intake EXCEPT !.thr[t].pc = "incr", !.thr[t].sid = NEXT_ID]
    /\ UNCHANGED storeVars
    /\ IntakeFrame

\* Lines 200 and 224, second statement: NEXT_ID += 1.
SubmitIncr(t) ==
    /\ intake.thr[t].pc = "incr"
    /\ NEXT_ID' = NEXT_ID + 1
    /\ intake' = [intake EXCEPT !.thr[t].pc = "store"]
    /\ UNCHANGED <<SUBMISSIONS, PROMPTS_HISTORY, VOTES, APPROVED, APPROVED_PROMPTS, events>>
    /\ IntakeFrame

\* Lines 201-204 and 225-234: the record is stored under sid (actions are also
\* put on APPROVED), the event is broadcast and the id is answered.
SubmitStore(t) ==
    LET sid == intake.thr[t].sid
        item == IF intake.thr[t].type = "prompt" THEN NewPrompt(sid) ELSE NewActions(sid)
    IN /\ intake.thr[t].pc = "store"
       /\ SUBMISSIONS' = [i \in DOMAIN SUBMISSIONS \cup {sid} |->
                             IF i = sid THEN item ELSE SUBMISSIONS[i]]
       /\ APPROVED' = IF intake.thr[t].type = "actions"
                      THEN Append(APPROVED, [id |-> sid]) ELSE APPROVED
       /\ events' = broadcast(events, <<IF intake.thr[t].type = "prompt"
                                        THEN "queued" ELSE "auto_approved_actions", sid>>)
       /\ intake' = [intake EXCEPT !.thr[t] = IdleSubmit, !.created = Append(@, sid)]
       /\ UNCHANGED <<PROMPTS_HISTORY, VOTES, APPROVED_PROMPTS, NEXT_ID>>
       /\ IntakeFrame

\* POST /clear with the admin key.
clear ==
    /\ SUBMISSIONS' = <<>>
    /\ VOTES' = <<>>
    /\ PROMPTS_HISTORY' = <<>>
    /\ APPROVED' = <<>>
    /\ APPROVED_PROMPTS' = <<>>
    /\ events' = broadcast(events, <<"cleared", 0>>)
    /\ UNCHANGED NEXT_ID

IntakeClear ==
    /\ Broadcasts("cleared") < MaxClears
    /\ clear
    /\ UNCHANGED intake
    /\ IntakeFrame

\* A moderator rejects a queued submission.
IntakeDecide(sid) ==
    /\ sid \in Queued
    /\ decide_reject(sid)
    /\ UNCHANGED <<PROMPTS_HISTORY, VOTES, APPROVED, APPROVED_PROMPTS, NEXT_ID, intake>>
    /\ IntakeFrame

\* The bot archives a queued prompt.
IntakeMove(sid) ==
    /\ sid \in Queued
    /\ move_to_history(<<sid>>)
    /\ UNCHANGED <<APPROVED, APPROVED_PROMPTS, NEXT_ID, intake>>
    /\ IntakeFrame

IntakeNext ==
    \/ \E t \in SubmitThreads : \E type \in {"prompt", "actions"} : \E ok \in BOOLEAN :
          SubmitCall(t, type, ok)
    \/ \E t \in SubmitThreads : SubmitScreen(t)
    \/ \E t \in SubmitThreads : SubmitRead(t)
    \/ \E t \in SubmitThreads : SubmitIncr(t)
    \/ \E t \in SubmitThreads : SubmitStore(t)
    \/ IntakeClear
    \/ \E sid \in 1..MaxCalls : IntakeDecide(sid)
    \/ \E sid \in 1..MaxCalls : IntakeMove(sid)

IntakeSpec == Init /\ [][IntakeNext]_vars

----------------------------------------------------------------------------
\* POST /vote of src/backend/main.py statement by statement on the threads of
\* the pool, next to /submit and /decide

VoteUsers == {"u1", "u2"}

\* Lines 249-251: a thread takes the request; without a queued submission of
\* that id it answers "No such queued submission".
VoteCall(t, sid, user) ==
    /\ intake.thr[t].pc = "idle"
    /\ intake.calls < MaxVoteCalls
    /\ intake' = [intake EXCEPT
                     !.calls = @ + 1,
                     !.thr[t] = IF sid \notin DOMAIN SUBMISSIONS \/ SUBMISSIONS[sid].status # "queued"
                                THEN IdleSubmit
                                ELSE [pc |-> "add", type |-> "vote", ok |-> TRUE, sid |-> sid,
                                      user |-> user, n |-> 0]]
    /\ UNCHANGED storeVars
    /\ IntakeFrame

\* Line 252: VOTES.setdefault(submission_id, set()).add(user).
VoteAdd(t) ==
    LET sid == intake.thr[t].sid
        voters == (IF sid \in DOMAIN VOTES THEN VOTES[sid] ELSE {}) \cup {intake.thr[t].user}
    IN /\ intake.thr[t].pc = "add"
       /\ VOTES' = [i \in DOMAIN VOTES \cup {sid} |-> IF i = sid THEN voters ELSE VOTES[i]]
       /\ intake' = [intake EXCEPT !.thr[t].pc = "len"]
       /\ UNCHANGED <<SUBMISSIONS, PROMPTS_HISTORY, APPROVED, APPROVED_PROMPTS, NEXT_ID, events>>
       /\ IntakeFrame

\* Line 253, the right-hand side: len(VOTES[submission_id]).
VoteLen(t) ==
    /\ intake.thr[t].pc = "len"
    /\ intake' = [intake EXCEPT !.thr[t].pc = "store",
                                !.thr[t].n = Cardinality(VOTES[intake.thr[t].sid])]
    /\ UNCHANGED storeVars
    /\ IntakeFrame

\* Line 253, the assignment to the votes field, and lines 254-255: the event
\* is broadcast and the request is answered.
VoteStore(t) ==
    LET sid == intake.thr[t].sid
    IN /\ intake.thr[t].pc = "store"
       /\ SUBMISSIONS' = [SUBMISSIONS EXCEPT ![sid].votes = intake.thr[t].n]
       /\ events' = broadcast(events, <<"vote", sid>>)
       /\ intake' = [intake EXCEPT !.thr[t] = IdleSubmit]
       /\ UNCHANGED <<PROMPTS_HISTORY, VOTES, APPROVED, APPROVED_PROMPTS, NEXT_ID>>
       /\ IntakeFrame

VoteNext ==
    \/ StoreSubmit
    \/ \E sid \in 1..MaxIds : StoreDecide(sid)
    \/ \E t \in SubmitThreads : \E sid \in 1..MaxIds : \E user \in VoteUsers :
          VoteCall(t, sid, user)
    \/ \E t \in SubmitThreads : VoteAdd(t)
    \/ \E t \in SubmitThreads : VoteLen(t)
    \/ \E t \in SubmitThreads : VoteStore(t)

VoteSpec == Init /\ [][VoteNext]_vars

----------------------------------------------------------------------------
\* The store of src/backend/main_updated.py, whose endpoints are served one at a time

UpdatedFrame == UNCHANGED <<botVars, threadVars, PROMPTS_HISTORY, VOTES, APPROVED_PROMPTS>>

\* POST /submit (async): a prompt that is neither empty nor too long, or actions
\* without a disallowed token.
UpdSubmit(type) ==
    /\ NEXT_ID <= MaxIds
    /\ SUBMISSIONS' = SUBMISSIONS @@
          (NEXT_ID :> IF type = "prompt" THEN NewPrompt(NEXT_ID) ELSE NewActions(NEXT_ID))
    /\ NEXT_ID' = NEXT_ID + 1
    /\ APPROVED' = IF type = "actions" THEN Append(APPROVED, [id |-> NEXT_ID]) ELSE APPROVED
    /\ events' = IF type = "prompt"
                 THEN broadcast(events, <<"queued", NEXT_ID>>)
                 ELSE broadcast(broadcast(events, <<"queued", NEXT_ID>>),
                                <<"auto_approved_actions", NEXT_ID>>)
    /\ UpdatedFrame

\* POST /decide that rejects sid.
UpdDecide(sid) ==
    /\ sid \in Queued
    /\ decide_reject(sid)
    /\ UNCHANGED <<APPROVED, NEXT_ID>>
    /\ UpdatedFrame

\* POST /move-to-history of one id.
UpdMove(sid) ==
    /\ sid \in Queued
    /\ move_to_history(<<sid>>)
    /\ UNCHANGED <<botVars, threadVars, APPROVED, APPROVED_PROMPTS, NEXT_ID>>

\* POST /auto_approved_actions?submission_id=sid.
auto_approved_actions(sid) ==
    /\ sid \in DOMAIN SUBMISSIONS
    /\ Broadcasts("auto_approved_actions") < MaxIds + MaxMarks
    /\ SUBMISSIONS' = [SUBMISSIONS EXCEPT ![sid].status = "approved"]
    /\ events' = broadcast(events, <<"auto_approved_actions", sid>>)
    /\ UNCHANGED <<APPROVED, NEXT_ID>>
    /\ UpdatedFrame

\* POST /finished?submission_id=sid.
finished(sid) ==
    /\ sid \in DOMAIN SUBMISSIONS
    /\ Broadcasts("finished") < MaxMarks
    /\ SUBMISSIONS' = [SUBMISSIONS EXCEPT ![sid].status = "completed"]
    /\ events' = broadcast(events, <<"finished", sid>>)
    /\ UNCHANGED <<APPROVED, NEXT_ID>>
    /\ UpdatedFrame

UpdatedNext ==
    \/ \E type \in {"prompt", "actions"} : UpdSubmit(type)
    \/ \E sid \in 1..MaxIds : UpdDecide(sid)
    \/ \E sid \in 1..MaxIds : UpdMove(sid)
    \/ \E sid \in 1..MaxIds : auto_approved_actions(sid)
    \/ \E sid \in 1..MaxIds : finished(sid)

UpdatedSpec == Init /\ [][UpdatedNext]_vars

----------------------------------------------------------------------------
\* The screening of POST /submit (src/backend/main.py)
\*
\* A text is a sequence of tokens, each standing for the characters its name
\* spells: "draw a blue bird", " ", "import", "porn", "p0rn", "2649", "__" are
\* themselves, "backtick" is the one character of that name, and "Passage" is
\* a passage of 250 characters, 165 of them letters and 38 of them spaces, that
\* begins with a word of five letters, ends with a single letter and has 32
\* words of three letters or more in between.  The code of an
\* actions request is a sequence of the tokens of CodeAlphabet.

PromptAlphabet == {"draw a blue bird", " ", "import", "porn", "p0rn", "backtick", "2649", "__",
                   "Passage"}
CodeAlphabet == {"agent.log(1)", "open(", "OPEN(", ".", "x", " ", "import", "exec(", "eval(",
                 "__", "os.", "sys.", "subprocess"}

SeqsUpTo(S, n) == UNION {[1..k -> S] : k \in 0..n}

\* The number of characters of a token
chars(tok) ==
    CASE tok = "Passage" -> 250
      [] tok \in {"draw a blue bird", "Draw a blue bird"} -> 16
      [] tok \in {"import", "Import"} -> 6
      [] tok \in {"porn", "p0rn", "2649"} -> 4
      [] tok = "__" -> 2
      [] OTHER -> 1

\* len(text): the number of characters
len(text) ==
    LET RECURSIVE Sum(_)
        Sum(s) == IF s = <<>> THEN 0 ELSE chars(Head(s)) + Sum(Tail(s))
    IN Sum(text)

\* str.strip(): the text without its leading and trailing white space
strip(text) ==
    LET RECURSIVE Left(_), Right(_)
        Left(s) == IF s # <<>> /\ Head(s) = " " THEN Left(Tail(s)) ELSE s
        Right(s) == IF s # <<>> /\ s[Len(s)] = " " THEN Right(SubSeq(s, 1, Len(s) - 1)) ELSE s
    IN Right(Left(text))

\* str.lower()
lower(text) ==
    [i \in DOMAIN text |-> CASE text[i] = "OPEN(" -> "open("
                             [] text[i] = "Passage" -> "passage"
                             [] text[i] = "Draw a blue bird" -> "draw a blue bird"
                             [] text[i] = "Import" -> "import"
                             [] OTHER -> text[i]]

normalize_leetspeak(s) ==
    [i \in DOMAIN s |-> CASE s[i] = "p0rn" -> "porn"
                          [] s[i] = "2649" -> "26ag"
                          [] OTHER -> s[i]]

\* The first and the last character of a token are word characters (\w).
StartsWord(tok) == tok \notin {" ", "backtick", ".", ")", "!", ","}
EndsWord(tok) == tok \notin {" ", "backtick", ".", ")", "!", ",", "https://", "Https://",
                             "agent.log(1)", "open(", "OPEN(", "exec(",
                             "eval(", "os.", "sys.", "agent.log(0); agent.write_output(",
                             "agent.open(1)"}

\* \b before and after the token at position i
BoundaryBefore(s, i) == i = 1 \/ ~EndsWord(s[i - 1])
BoundaryAfter(s, i) == i = Len(s) \/ ~StartsWord(s[i + 1])

\* The words of NSFW_WORDS that the alphabet spells.
NSFW_WORDS == {"porn"}

\* re.search of the patterns of PROMPT_BANNED_PATTERNS that the alphabet can
\* match: three backticks, a pair of backticks around one character or more, and
\* \b(import|def|class)\b.
PROMPT_BANNED_PATTERNS(s) ==
    \/ \E i \in 1..Len(s) - 2 : s[i] = "backtick" /\ s[i + 1] = "backtick" /\ s[i + 2] = "backtick"
    \/ \E i, j \in DOMAIN s : j >= i + 2 /\ s[i] = "backtick" /\ s[j] = "backtick"
    \/ \E i \in DOMAIN s : s[i] = "import" /\ BoundaryBefore(s, i) /\ BoundaryAfter(s, i)

\* The number of words [A-Za-z]+ of three letters or more.
alpha_words(t) ==
    LET whole(tok) == CASE tok = "import" -> 6 [] tok = "porn" -> 4 [] OTHER -> 0
        head(tok) == CASE tok = "draw a blue bird" -> 4 [] tok = "p0rn" -> 1
                       [] tok = "Passage" -> 5 [] OTHER -> 0
        inner(tok) == CASE tok = "draw a blue bird" -> 1 [] tok = "Passage" -> 32 [] OTHER -> 0
        tail(tok) == CASE tok = "draw a blue bird" -> 4 [] tok = "p0rn" -> 2
                       [] tok = "Passage" -> 1 [] OTHER -> 0
        one(n) == IF n >= 3 THEN 1 ELSE 0
        RECURSIVE Count(_, _)
        \* run: the letters of the word that is being read
        Count(s, run) ==
            IF s = <<>> THEN one(run)
            ELSE IF whole(Head(s)) > 0 THEN Count(Tail(s), run + whole(Head(s)))
            ELSE one(run + head(Head(s))) + inner(Head(s)) + Count(Tail(s), tail(Head(s)))
    IN Count(t, 0)

\* _has_repeated_ngram: with the white space taken out, some group of n = 2, 3
\* or 4 characters is met four times or more and at least once in every 3n
\* characters.  A text has four of the same group when it has four of the same
\* phrase, number or keyword (the group of four characters has the lowest
\* threshold), or in its runs of underscores.
has_repeated_ngram(text) ==
    LET t == SelectSeq(text, LAMBDA tok : tok # " ")
        \* the characters of t that are not white space
        solid == len(t) - 3 * Cardinality({i \in DOMAIN t : t[i] = "draw a blue bird"})
                        - 38 * Cardinality({i \in DOMAIN t : t[i] = "Passage"})
        times(tok) == Cardinality({i \in DOMAIN t : t[i] = tok})
        starts == {i \in DOMAIN t : t[i] = "__" /\ (i = 1 \/ t[i - 1] # "__")}
        run(i) == CHOOSE k \in 1..Len(t) :
                     /\ \A m \in i..(i + k - 1) : t[m] = "__"
                     /\ i + k > Len(t) \/ t[i + k] # "__"
        RECURSIVE Groups(_, _)
        \* the groups of n underscores in the runs that start in S
        Groups(S, n) == IF S = {} THEN 0
                        ELSE LET i == CHOOSE x \in S : TRUE
                             IN Max({0, 2 * run(i) - n + 1}) + Groups(S \ {i}, n)
    IN \/ \E tok \in {"draw a blue bird", "2649", "import"} :
             times(tok) >= 4 /\ times(tok) >= solid \div 12
       \/ \E n \in 2..4 :
             solid >= 4 * n /\ Groups(starts, n) >= 4 /\ Groups(starts, n) >= solid \div (3 * n)

\* _gibberish_reason: the tests that a text over the alphabet can fail (none of
\* them fails the tests on character variety, vowels and noise).
gibberish_reason(text) ==
    LET t == strip(text)
        alnum(tok) == CASE tok = "Passage" -> 165 [] tok = "draw a blue bird" -> 13
                        [] tok = "import" -> 6 [] tok \in {"porn", "p0rn", "2649"} -> 4
                        [] OTHER -> 0
        digit(tok) == CASE tok = "2649" -> 4 [] tok = "p0rn" -> 1 [] OTHER -> 0
        RECURSIVE Sum(_, _)
        Sum(f(_), s) == IF s = <<>> THEN 0 ELSE f(Head(s)) + Sum(f, Tail(s))
    IN IF len(t) < 8 THEN "too short"
       ELSE IF \E i, j \in DOMAIN t :
                  /\ t[i] \in {" ", "backtick", "__"} /\ \A k \in i..j : t[k] = t[i]
                  /\ (j - i + 1) * chars(t[i]) >= 6
            THEN "excessive repeated characters"
       ELSE IF Sum(alnum, t) > 0 /\ 10 * Sum(digit, t) > 6 * Sum(alnum, t)
            THEN "mostly numbers"
       ELSE IF alpha_words(t) < 3 THEN "too few meaningful words"
       ELSE IF has_repeated_ngram(t) THEN "repeated pattern gibberish"
       ELSE "none"

prompt_violation(text) ==
    LET t_norm == normalize_leetspeak(lower(text))
    IN IF \E i \in DOMAIN t_norm : t_norm[i] \in NSFW_WORDS THEN "NSFW content not allowed"
       ELSE IF PROMPT_BANNED_PATTERNS(t_norm) THEN "code/unsafe content not allowed"
       ELSE IF gibberish_reason(text) # "none" THEN "gibberish"
       ELSE "none"

\* any(re.search(p, lc) for p in banned_patterns)
banned_patterns(lc) ==
    \E i \in DOMAIN lc :
       \/ lc[i] = "open(" /\ BoundaryBefore(lc, i) /\ (i = 1 \/ lc[i - 1] \notin {".", "os.", "sys."})
       \/ lc[i] \in {"import", "subprocess"} /\ BoundaryBefore(lc, i) /\ BoundaryAfter(lc, i)
       \/ lc[i] \in {"exec(", "eval(", "os.", "sys."} /\ BoundaryBefore(lc, i)
       \/ lc[i] = "__"

\* submit without the filters on content
Screen_NoFilter(type, content) ==
    IF type = "prompt"
    THEN IF strip(content) = <<>> \/ len(strip(content)) > MaxPromptLen THEN "error" ELSE "ok"
    ELSE "ok"

\* What submit decides about a request: "error" is answered, "unsafe" is
\* broadcast and answered, "ok" goes on to be stored.
Screen(type, content) ==
    IF type = "prompt"
    THEN IF strip(content) = <<>> \/ len(strip(content)) > MaxPromptLen THEN "error"
         ELSE IF prompt_violation(strip(content)) # "none" THEN "unsafe"
         ELSE "ok"
    ELSE IF banned_patterns(lower(content)) THEN "error" ELSE "ok"

\* A queue with room for one item.
full_Bounded(q) == Len(q) >= 1

\* Queue.full() of a queue made by asyncio.Queue(), without maxsize.
full(q) == FALSE

\* POST /submit, served alone; put_nowait raises QueueFull on a full queue,
\* which the handler swallows.
submit(type, content) ==
    LET sid == NEXT_ID
        verdict == Screen(type, content)
    IN /\ request' = [type |-> type, content |-> content, calls |-> request.calls + 1]
       /\ IF verdict = "ok"
          THEN /\ NEXT_ID' = NEXT_ID + 1
               /\ SUBMISSIONS' = SUBMISSIONS @@ (sid :>
                     IF type = "prompt"
                     THEN NewPrompt(sid) @@ [text |-> strip(content)]
                     ELSE NewActions(sid) @@ [code |-> content])
               /\ APPROVED' = IF type = "actions" /\ ~full(APPROVED)
                              THEN Append(APPROVED, [id |-> sid, code |-> content])
                              ELSE APPROVED
               /\ events' = broadcast(events, <<IF type = "prompt" THEN "queued"
                                                ELSE "auto_approved_actions", sid>>)
          ELSE /\ events' = IF verdict = "unsafe"
                            THEN broadcast(events, <<"auto_rejected_prompt", 0>>)
                            ELSE events
               /\ UNCHANGED <<SUBMISSIONS, APPROVED, NEXT_ID>>
       /\ UNCHANGED <<PROMPTS_HISTORY, VOTES, APPROVED_PROMPTS>>

ScreenSubmitPrompt(text) ==
    /\ request.calls < MaxScreened
    /\ submit("prompt", text)
    /\ UNCHANGED <<botVars, mover, seen, intake, orch, runner, chan, admin, applied, sender>>

ScreenSubmitActions(code) ==
    /\ request.calls < MaxScreened
    /\ submit("actions", code)
    /\ UNCHANGED <<botVars, mover, seen, intake, orch, runner, chan, admin, applied, sender>>

ScreenNext ==
    \/ \E text \in SeqsUpTo(PromptAlphabet, MaxText) : ScreenSubmitPrompt(text)
    \/ \E code \in SeqsUpTo(CodeAlphabet, MaxCode) : ScreenSubmitActions(code)

ScreenSpec == Init /\ [][ScreenNext]_vars

----------------------------------------------------------------------------
\* From the winning prompt to the actions (src/backend/main.py, src/orchestrator/orch.py)

\* The texts that prepare_prompt_for_ai is applied to in CleanSpec: a word, white
\* space, a backtick, punctuation, the scheme of a URL and a word of BAD_WORDS.
CleanAlphabet == {"see", " ", "backtick", ".", "!", ",", "https://", "shit"}

\* The word of BAD_WORDS that the alphabet spells.
BAD_WORDS == {"shit"}

\* _mask_words: a word of the list or of NSFW_WORDS that stands between two
\* word boundaries keeps its first and its last letter; the pattern is compiled
\* with re.IGNORECASE.
_mask_words(t, words) ==
    LET fold(tok) == CASE tok = "Shit" -> "shit"
                       [] tok = "Porn" -> "porn"
                       [] OTHER -> tok
        repl(w) == CASE w = "shit" -> "s**t"
                     [] w = "Shit" -> "S**t"
                     [] w = "porn" -> "p**n"
                     [] OTHER -> "P**n"
    IN [i \in DOMAIN t |->
           IF fold(t[i]) \in (words \cup NSFW_WORDS) /\ BoundaryBefore(t, i) /\ BoundaryAfter(t, i)
           THEN repl(t[i]) ELSE t[i]]

\* prepare_prompt_for_ai, step by step, on a text of CleanAlphabet, of
\* PromptAlphabet or of the tokens that the function itself writes.
prepare_prompt_for_ai(text) ==
    LET RECURSIVE DropUrls(_), SkipNonSpace(_), Collapse(_), Dedupe(_)
        \* re.sub(r"https?://\S+", "", t): the scheme and the characters after
        \* it up to the next white space, if there is one character at least
        SkipNonSpace(s) == IF s # <<>> /\ s[1] # " " THEN SkipNonSpace(Tail(s)) ELSE s
        DropUrls(s) == IF s = <<>> THEN s
                       ELSE IF s[1] = "https://" /\ Len(s) >= 2 /\ s[2] # " "
                            THEN DropUrls(SkipNonSpace(Tail(s)))
                       ELSE <<s[1]>> \o DropUrls(Tail(s))
        \* re.sub(r"\s+", " ", t)
        Collapse(s) == IF Len(s) < 2 THEN s
                       ELSE IF s[1] = " " /\ s[2] = " " THEN Collapse(Tail(s))
                       ELSE <<s[1]>> \o Collapse(Tail(s))
        \* re.sub(r"([!?.,])\1{1,}", r"\1", t)
        Dedupe(s) == IF Len(s) < 2 THEN s
                     ELSE IF s[1] \in {"!", "?", ".", ","} /\ s[2] = s[1] THEN Dedupe(Tail(s))
                     ELSE <<s[1]>> \o Dedupe(Tail(s))
        t1 == SelectSeq(strip(text), LAMBDA tok : tok # "backtick")
        t2 == DropUrls(t1)
        t3 == strip(Collapse(t2))
        t4 == Dedupe(t3)
        \* t[0].upper() where t[0].isalpha()
        upper(tok) == CASE tok = "draw a blue bird" -> "Draw a blue bird"
                        [] tok = "import" -> "Import"
                        [] tok = "porn" -> "Porn"
                        [] tok = "p0rn" -> "P0rn"
                        [] tok = "see" -> "See"
                        [] tok = "shit" -> "Shit"
                        [] tok = "https://" -> "Https://"
                        [] tok = "s**t" -> "S**t"
                        [] tok = "p**n" -> "P**n"
                        [] OTHER -> tok
        t5 == IF t4 = <<>> THEN t4 ELSE <<upper(t4[1])>> \o Tail(t4)
        \* t += "." unless the last character is one of ".!?"
        t6 == IF t5 # <<>> /\ t5[Len(t5)] \notin {".", "!", "?"} THEN Append(t5, ".") ELSE t5
    IN _mask_words(t6, BAD_WORDS)

\* prepare_prompt_for_ai applied to a text, and then to its own result.
CleanFrame == UNCHANGED <<botVars, storeVars, mover, seen, intake, request, orch, runner,
                          chan, admin, sender>>

CleanOnce ==
    /\ applied.fn = "prepare_prompt_for_ai"
    /\ applied.times = 0
    /\ applied' = [applied EXCEPT !.times = 1, !.once = prepare_prompt_for_ai(applied.arg)]
    /\ CleanFrame

CleanAgain ==
    /\ applied.fn = "prepare_prompt_for_ai"
    /\ applied.times = 1
    /\ applied' = [applied EXCEPT !.times = 2, !.twice = prepare_prompt_for_ai(applied.once)]
    /\ CleanFrame

CleanNext == CleanOnce \/ CleanAgain

CleanInit ==
    /\ BotInit
    /\ StoreInit
    /\ PoolInit
    /\ admin = NoAdmin(Secret)
    /\ \E text \in SeqsUpTo(CleanAlphabet, MaxClean) :
          applied = [NoApplied EXCEPT !.fn = "prepare_prompt_for_ai", !.arg = text]

CleanSpec == CleanInit /\ [][CleanNext]_vars

\* POST /prompt/win for a stored prompt.
prompt_win_text(sid) ==
    LET clean == prepare_prompt_for_ai(SUBMISSIONS[sid].text)
    IN /\ sid \in DOMAIN SUBMISSIONS
       /\ SUBMISSIONS[sid].type = "prompt"
       /\ SUBMISSIONS' = [SUBMISSIONS EXCEPT ![sid] =
                             [outcome |-> "won", clean_text |-> clean] @@ @]
       /\ APPROVED_PROMPTS' = Append(APPROVED_PROMPTS, [id |-> sid, text |-> clean])
       /\ events' = broadcast(events, <<"prompt_won", sid>>)

\* synthesize_actions: the text has no double quote to replace; of its first
\* 200 characters the token that crosses the limit leaves a piece.
synthesize_actions(prompt) ==
    LET RECURSIVE Cut(_, _)
        Cut(s, room) == IF s = <<>> \/ room = 0 THEN <<>>
                        ELSE IF chars(Head(s)) <= room
                             THEN <<Head(s)>> \o Cut(Tail(s), room - chars(Head(s)))
                        ELSE <<"piece">>
    IN <<"agent.log(0); agent.write_output(">> \o Cut(prompt, 200) \o <<")">>

\* call_ai_for_actions: the service answers reply; without a service, on an
\* error or with an empty answer the actions are synthesized.
call_ai_for_actions(prompt, reply) ==
    IF reply = <<>> THEN synthesize_actions(prompt) ELSE reply

\* Line 46: the orchestrator's own list of unsafe verbs.
unsafe_verbs(actions) ==
    \E i \in DOMAIN actions : lower(actions)[i] \in {"subprocess", "import", "exec(", "eval("}

OrchFrame == UNCHANGED <<botVars, mover, seen, intake, runner, chan, admin, applied, sender>>

\* A viewer submits a prompt.
OrchPrompt(text) ==
    /\ request.calls < MaxOrchPrompts
    /\ submit("prompt", text)
    /\ UNCHANGED orch
    /\ OrchFrame

\* The bot reports the winner of a poll.
OrchWin(sid) ==
    /\ sid \in DOMAIN SUBMISSIONS
    /\ SUBMISSIONS[sid].type = "prompt"
    /\ SUBMISSIONS[sid].outcome # "won"
    /\ prompt_win_text(sid)
    /\ UNCHANGED <<PROMPTS_HISTORY, VOTES, APPROVED, NEXT_ID, request, orch>>
    /\ OrchFrame

\* The item pulled first is kept.
keep_First(latest, sub) == IF latest = None THEN sub ELSE latest

\* Line 39: latest = sub.
keep(latest, sub) == sub

\* Lines 35-39: GET /approved/prompt/next gives the next winner.
OrchGet ==
    /\ orch.pc = "drain"
    /\ APPROVED_PROMPTS # <<>>
    /\ orch' = [orch EXCEPT !.latest = keep(orch.latest, Head(APPROVED_PROMPTS)),
                            !.pulled = Append(@, Head(APPROVED_PROMPTS).id)]
    /\ APPROVED_PROMPTS' = Tail(APPROVED_PROMPTS)
    /\ UNCHANGED <<SUBMISSIONS, PROMPTS_HISTORY, VOTES, APPROVED, NEXT_ID, events, request>>
    /\ OrchFrame

\* Lines 36-40: the queue is empty and the orchestrator holds a winner.
OrchBreak ==
    /\ orch.pc = "drain"
    /\ APPROVED_PROMPTS = <<>>
    /\ orch.latest # None
    /\ orch' = [orch EXCEPT !.pc = "generate"]
    /\ UNCHANGED <<storeVars, request>>
    /\ OrchFrame

\* What the orchestrator posts for a prompt and an answer of the service.
orch_actions(text, reply) ==
    IF unsafe_verbs(call_ai_for_actions(text, reply))
    THEN synthesize_actions(text)
    ELSE call_ai_for_actions(text, reply)

\* The actions are put on APPROVED as they are.
orch_post_Unscreened(actions) ==
    /\ APPROVED' = Append(APPROVED, [id |-> NEXT_ID, code |-> actions])
    /\ SUBMISSIONS' = SUBMISSIONS @@ (NEXT_ID :> (NewActions(NEXT_ID) @@ [code |-> actions]))
    /\ NEXT_ID' = NEXT_ID + 1
    /\ request' = [type |-> "actions", content |-> actions, calls |-> request.calls + 1]
    /\ UNCHANGED <<PROMPTS_HISTORY, VOTES, APPROVED_PROMPTS, events>>

\* The orchestrator hands its actions over with POST /submit.
orch_post(actions) == submit("actions", actions)

\* Lines 41-57: the actions for the winner are generated and submitted.
OrchGenerate(reply) ==
    /\ orch.pc = "generate"
    /\ orch_post(orch_actions(orch.latest.text, reply))
    /\ orch' = [orch EXCEPT !.pc = "drain", !.latest = None, !.pulled = <<>>,
                            !.last = [pulled |-> orch.pulled,
                                      posted |-> <<[from |-> orch.latest.id,
                                                    code |-> request'.content]>>]]
    /\ OrchFrame

\* Lines 36-40 and 58: the first pull of a cycle finds the queue empty; the
\* orchestrator sleeps and starts its next cycle.
OrchIdle ==
    /\ orch.pc = "drain"
    /\ APPROVED_PROMPTS = <<>>
    /\ orch.latest = None
    /\ orch.cycles < MaxIdle
    /\ orch' = [orch EXCEPT !.cycles = @ + 1, !.last = [pulled |-> <<>>, posted |-> <<>>]]
    /\ UNCHANGED <<storeVars, request>>
    /\ OrchFrame

OrchNext ==
    \/ \E text \in SeqsUpTo(PromptAlphabet, MaxText) : OrchPrompt(text)
    \/ \E sid \in 1..MaxOrchPrompts : OrchWin(sid)
    \/ OrchGet
    \/ OrchBreak
    \/ \E reply \in SeqsUpTo(CodeAlphabet, MaxCode) : OrchGenerate(reply)

OrchSpec == Init /\ [][OrchNext]_vars

\* The orchestrator with several winners: the texts of the prompts and the
\* answers of the service.
DrainTexts == {<<"draw a blue bird">>, <<"Passage">>}
DrainReplies == {<<>>, <<"agent.log(1)">>}

\* A viewer submits a prompt that passes the screening.
DrainPrompt(text) ==
    /\ Cardinality({i \in DOMAIN SUBMISSIONS : SUBMISSIONS[i].type = "prompt"}) < MaxDrainPrompts
    /\ submit("prompt", text)
    /\ UNCHANGED orch
    /\ OrchFrame

DrainNext ==
    \/ \E text \in DrainTexts : DrainPrompt(text)
    \/ \E sid \in DOMAIN SUBMISSIONS : OrchWin(sid)
    \/ OrchGet
    \/ OrchBreak
    \/ OrchIdle
    \/ \E reply \in DrainReplies : OrchGenerate(reply)

DrainSpec == Init /\ [][DrainNext]_vars

----------------------------------------------------------------------------
\* The runner (src/runner/runner.py, src/runner/ast_allowlist.py)
\*
\* The code of a task is a sequence of the tokens "agent.log(1)",
\* "agent.open(1)", "x" and " ".

RunnerAlphabet == {"agent.log(1)", "agent.open(1)", "x", " "}

\* The snippets that validate_snippet is applied to in SnippetSpec: the tokens
\* of RunnerAlphabet, the end of a line, and pieces of code that stand for the
\* constructs the walk looks for.
SnippetAlphabet == RunnerAlphabet \cup {"newline", "import os", "agent._x", "agent.a.b(1)",
                                        "print(1)", "agent(1)", "agent.log('import')",
                                        "agent.log("}

ALLOWED_CALL_BASES == {<<"agent">>}

ALLOWED_NODE_TYPES ==
    {"Module", "Expr", "Call", "Attribute", "Name", "Load", "Str", "Bytes", "Num", "Constant",
     "Tuple", "List", "Dict", "keyword", "BinOp", "Add", "Sub", "Mult", "Div", "FloorDiv", "Mod",
     "Pow", "UnaryOp", "USub", "UAdd", "Compare", "Eq", "NotEq", "Lt", "LtE", "Gt", "GtE",
     "BoolOp", "And", "Or", "JoinedStr", "FormattedValue", "Assign"}

\* The nodes of the statement that ast.parse makes of a token standing alone on
\* its line: their types, the attr of the Attribute nodes, the id of the Name
\* nodes and the func of the Call nodes.  Identifiers are sequences of pieces.
Statement(tok) ==
    LET node(types, attrs, names, calls) ==
            [types |-> types, attrs |-> attrs, names |-> names, calls |-> calls]
        method == [func |-> "Attribute", value |-> "Name", id |-> <<"agent">>]
        onAgent == {"Expr", "Call", "Attribute", "Name", "Load", "Constant"}
    IN CASE tok \in {"agent.log(1)", "agent.log('import')"} ->
                node(onAgent, {<<"log">>}, {<<"agent">>}, {method})
         [] tok = "agent.open(1)" -> node(onAgent, {<<"open">>}, {<<"agent">>}, {method})
         [] tok = "agent.a.b(1)" ->
                node(onAgent, {<<"a">>, <<"b">>}, {<<"agent">>},
                     {[func |-> "Attribute", value |-> "Attribute", id |-> <<>>]})
         [] tok = "agent(1)" ->
                node({"Expr", "Call", "Name", "Load", "Constant"}, {}, {<<"agent">>},
                     {[func |-> "Name", value |-> "none", id |-> <<"agent">>]})
         [] tok = "print(1)" ->
                node({"Expr", "Call", "Name", "Load", "Constant"}, {}, {<<"print">>},
                     {[func |-> "Name", value |-> "none", id |-> <<"print">>]})
         [] tok = "agent._x" ->
                node({"Expr", "Attribute", "Name", "Load"}, {<<"_", "x">>}, {<<"agent">>}, {})
         [] tok = "import os" -> node({"Import", "alias"}, {}, {}, {})
         [] OTHER -> node({"Expr", "Name", "Load"}, {}, {<<tok>>}, {})

\* The pieces of source text that the snippets of WorkerSpec are made of: the
\* start of a call on agent, its end, the quote ', the typographic quotes
\* U+2019 and U+201C (written by their code points), and the comma after an
\* argument with a call of print as the next argument and its comma.
WorkerAlphabet == {"agent.log(", ")", "'", "U+2019", "U+201C", ", print(1), "}

Typographic == {"U+201C", "U+201D", "U+2019"}

\* The tokens that Python's tokenizer makes of a line of such pieces.  A quote
\* starts a string literal that ends at the next quote of its kind, three
\* quotes start one that ends at the next three; whatever stands between them
\* is the string.  A typographic quote outside a string is an invalid
\* character.
tokenize(line) ==
    LET RECURSIVE Scan(_)
        Scan(s) ==
            IF s = <<>> THEN <<>>
            ELSE IF s[1] \in {"'", "\""}
                 THEN LET q == s[1]
                          triple == Len(s) >= 3 /\ s[2] = q /\ s[3] = q
                          ends == IF triple
                                  THEN {i \in 4..(Len(s) - 2) :
                                            s[i] = q /\ s[i + 1] = q /\ s[i + 2] = q}
                                  ELSE {i \in 2..Len(s) : s[i] = q}
                          e == Min(ends)
                      IN IF ends = {} THEN <<"ERRORTOKEN">>
                         ELSE <<"STRING">> \o
                              Scan(SubSeq(s, e + (IF triple THEN 3 ELSE 1), Len(s)))
            ELSE IF s[1] \in Typographic THEN <<"ERRORTOKEN">>
            ELSE <<s[1]>> \o Scan(Tail(s))
    IN Scan(line)

\* The statement that ast.parse makes of a line of such pieces, or a
\* SyntaxError: an expression list of strings and calls of agent.log whose
\* arguments are such a list.
ExprLine(line) ==
    LET toks == tokenize(line)
        depth(k) == Cardinality({i \in 1..k : toks[i] = "agent.log("})
                    - Cardinality({i \in 1..k : toks[i] = ")"})
        Apart == {<<"STRING", "agent.log(">>, <<")", "STRING">>, <<")", "agent.log(">>,
                  <<", print(1), ", ", print(1), ">>, <<"agent.log(", ", print(1), ">>}
        has(tok) == \E i \in DOMAIN toks : toks[i] = tok
        log == has("agent.log(")
        other == has(", print(1), ")
    IN [ok |-> /\ \A i \in DOMAIN toks : toks[i] \in {"STRING", "agent.log(", ")", ", print(1), "}
               /\ toks[1] \in {"STRING", "agent.log("}
               /\ \A i \in 1..(Len(toks) - 1) : <<toks[i], toks[i + 1]>> \notin Apart
               /\ \A k \in DOMAIN toks : depth(k) >= 0
               /\ depth(Len(toks)) = 0,
        body |-> <<[types |-> {"Expr"}
                              \cup (IF has("STRING") \/ other THEN {"Constant"} ELSE {})
                              \cup (IF log \/ other THEN {"Call", "Name", "Load"} ELSE {})
                              \cup (IF log THEN {"Attribute"} ELSE {})
                              \cup (IF \E k \in DOMAIN toks :
                                          toks[k] = ", print(1), " /\ depth(k) = 0
                                    THEN {"Tuple"} ELSE {}),
                    attrs |-> IF log THEN {<<"log">>} ELSE {},
                    names |-> (IF log THEN {<<"agent">>} ELSE {})
                              \cup (IF other THEN {<<"print">>} ELSE {}),
                    calls |-> (IF log THEN {[func |-> "Attribute", value |-> "Name",
                                             id |-> <<"agent">>]} ELSE {})
                              \cup (IF other THEN {[func |-> "Name", value |-> "none",
                                                    id |-> <<"print">>]} ELSE {})]>>]

\* ast.parse(src, mode="exec"): the statements of the lines, or a SyntaxError.
\* A line is white space alone, or one token with letters of a name before it
\* (where the token begins with a name) and after it (where it ends with one)
\* and white space at its end, or it is made of the pieces of WorkerAlphabet
\* and of those that the worker writes for them.
ast_parse(src) ==
    LET RECURSIVE Right(_), Lines(_), Leading(_)
        Right(s) == IF s # <<>> /\ s[Len(s)] = " " THEN Right(SubSeq(s, 1, Len(s) - 1)) ELSE s
        Lines(s) == IF \A i \in DOMAIN s : s[i] # "newline" THEN <<s>>
                    ELSE LET k == CHOOSE i \in DOMAIN s :
                                      s[i] = "newline" /\ \A j \in 1..(i - 1) : s[j] # "newline"
                         IN <<SubSeq(s, 1, k - 1)>> \o Lines(SubSeq(s, k + 1, Len(s)))
        Leading(s) == IF s # <<>> /\ s[1] = "x" THEN 1 + Leading(Tail(s)) ELSE 0
        StartsName(tok) == tok \notin {" ", "import os"}
        EndsName(tok) == tok \in {"agent._x", "import os"}
        Line(l) ==
            LET r == Right(l)
                a == Leading(r)
                before == SubSeq(r, 1, a)
                after == SubSeq(r, a + 2, Len(r))
                one == Statement(r[a + 1])
            IN IF r = <<>> THEN [ok |-> TRUE, body |-> <<>>]
               ELSE IF \E i \in DOMAIN r :
                          r[i] \in (WorkerAlphabet \cup Typographic \cup {"\""}) \ {"agent.log("}
                    THEN ExprLine(r)
               ELSE IF a = Len(r)
                    THEN [ok |-> TRUE, body |-> <<[Statement("x") EXCEPT !.names = {r}]>>]
               ELSE IF \/ r[a + 1] \in {" ", "agent.log("}
                       \/ \E i \in DOMAIN after : after[i] # "x"
                       \/ a > 0 /\ ~StartsName(r[a + 1])
                       \/ after # <<>> /\ ~EndsName(r[a + 1])
                    THEN [ok |-> FALSE, body |-> <<>>]
               ELSE [ok |-> TRUE,
                     body |-> <<[one EXCEPT
                                   !.names = {before \o n : n \in @},
                                   !.attrs = {IF n[1] = "_" THEN n \o after ELSE n : n \in @},
                                   !.calls = {IF c.id = <<>> THEN c
                                              ELSE [c EXCEPT !.id = before \o @] : c \in @}]>>]
        parsed == [i \in DOMAIN Lines(src) |-> Line(Lines(src)[i])]
        RECURSIVE Body(_)
        Body(i) == IF i > Len(parsed) THEN <<>> ELSE parsed[i].body \o Body(i + 1)
    IN [ok |-> \A i \in DOMAIN parsed : parsed[i].ok, body |-> Body(1)]

\* Every call is taken for a call on agent.
_is_allowed_call_Any(node) == TRUE

\* _is_allowed_call: the func of the call is an attribute of the name agent.
_is_allowed_call(node) ==
    node.func = "Attribute" /\ node.value = "Name" /\ node.id \in ALLOWED_CALL_BASES

\* The banned tokens of line 38 that the characters of a token spell.
banned(tok) ==
    CASE tok \in {"import os", "agent.log('import')"} -> {"import"}
      [] tok = "agent.open(1)" -> {"open("}
      [] OTHER -> {}

\* validate_snippet returns: ast.parse takes the snippet; the walk finds no
\* node outside ALLOWED_NODE_TYPES, no attribute that starts with an underscore,
\* no name but agent and no call but those on agent; the code without its
\* spaces and in lower case has no banned token.
validate_snippet(src) ==
    LET tree == ast_parse(src)
        lowered == lower(SelectSeq(src, LAMBDA tok : tok # " "))
    IN /\ tree.ok
       /\ \A i \in DOMAIN tree.body :
             /\ tree.body[i].types \subseteq ALLOWED_NODE_TYPES
             /\ \A attr \in tree.body[i].attrs : attr[1] # "_"
             /\ \A id \in tree.body[i].names : id = <<"agent">>
             /\ \A call \in tree.body[i].calls : _is_allowed_call(call)
       /\ \A i \in DOMAIN lowered : banned(lowered[i]) = {}

\* validate_snippet applied to a snippet: it returns, or it raises ValueError.
SnippetValidate ==
    /\ applied.fn = "validate_snippet"
    /\ applied.times = 0
    /\ applied' = [applied EXCEPT !.times = 1,
                                  !.valid = IF validate_snippet(applied.arg) THEN "ok"
                                            ELSE "ValueError"]
    /\ UNCHANGED <<botVars, storeVars, mover, seen, intake, request, orch, runner, chan, admin,
                   sender>>

SnippetNext == SnippetValidate

SnippetInit ==
    /\ BotInit
    /\ StoreInit
    /\ PoolInit
    /\ admin = NoAdmin(Secret)
    /\ \E src \in SeqsUpTo(SnippetAlphabet, MaxSnippet) :
          applied = [NoApplied EXCEPT !.fn = "validate_snippet", !.arg = src]

SnippetSpec == SnippetInit /\ [][SnippetNext]_vars

\* The worker (src/runner/worker_subproc.py) behind execute_snippet_subproc
\*
\* applied.arg is the code that execute_snippet_subproc is called with,
\* applied.valid what validate_snippet made of it, applied.once the text that
\* the worker compiles, and applied.twice what became of it.

\* Line 28: the three calls of str.replace.
replace(code) ==
    [i \in DOMAIN code |-> CASE code[i] \in {"U+201C", "U+201D"} -> "\""
                             [] code[i] = "U+2019" -> "'"
                             [] OTHER -> code[i]]

\* execute_snippet_subproc up to the start of the worker (runner.py:67-72).
execute_snippet_subproc ==
    /\ applied.fn = "execute_snippet_subproc"
    /\ applied.times = 0
    /\ applied' = [applied EXCEPT !.times = 1,
                                  !.valid = IF validate_snippet(applied.arg) THEN "ok"
                                            ELSE "ValueError"]
    /\ UNCHANGED <<botVars, storeVars, mover, seen, intake, request, orch, runner, chan, admin,
                   sender>>

\* main() of the worker: it reads the code that communicate() wrote to its
\* stdin, replaces the quotes, compiles and executes.
worker_subproc ==
    /\ applied.fn = "execute_snippet_subproc"
    /\ applied.times = 1
    /\ applied.valid = "ok"
    /\ LET code == replace(applied.arg)
       IN applied' = [applied EXCEPT !.times = 2,
                                     !.once = code,
                                     !.twice = IF ast_parse(code).ok THEN <<"exec">>
                                               ELSE <<"SyntaxError">>]
    /\ UNCHANGED <<botVars, storeVars, mover, seen, intake, request, orch, runner, chan, admin,
                   sender>>

WorkerNext == execute_snippet_subproc \/ worker_subproc

WorkerInit ==
    /\ BotInit
    /\ StoreInit
    /\ PoolInit
    /\ admin = NoAdmin(Secret)
    /\ \E code \in SeqsUpTo(WorkerAlphabet, MaxWorker) :
          applied = [NoApplied EXCEPT !.fn = "execute_snippet_subproc", !.arg = code]

WorkerSpec == WorkerInit /\ [][WorkerNext]_vars

\* The ValueError of validate_snippet goes unnoticed.
validation_failed_Ignored(code) == FALSE

\* Lines 68-72 of runner.py: the snippet raised ValueError.
validation_failed(code) == ~validate_snippet(code)

\* Every exit counts as a success.
succeeded_Any(returncode) == TRUE

\* Line 90 of runner.py.
succeeded(returncode) == returncode = 0

\* The worker is left alone.
kill_Missing(workers, p) == workers

\* process.kill()
kill(workers, p) == [workers EXCEPT ![p].state = "killed"]

\* The item stays on the queue.
approved_next_Peek == UNCHANGED APPROVED

\* GET /approved/next takes the item off the queue.
approved_next == APPROVED' = Tail(APPROVED)

RunnerFrame == UNCHANGED <<botVars, mover, seen, intake, orch, chan, admin, applied, sender>>

\* The orchestrator submits actions.
RunSubmit(code) ==
    /\ request.calls < MaxTasks
    /\ submit("actions", code)
    /\ UNCHANGED runner
    /\ RunnerFrame

\* Lines 114-117: the runner takes the next task; an item without code is
\* passed over.
RunGet ==
    /\ runner.pc = "poll"
    /\ APPROVED # <<>>
    /\ approved_next
    /\ runner' = IF Head(APPROVED).code # <<>>
                 THEN [runner EXCEPT !.pc = "validate", !.sub = Head(APPROVED)]
                 ELSE runner
    /\ UNCHANGED <<SUBMISSIONS, PROMPTS_HISTORY, VOTES, APPROVED_PROMPTS, NEXT_ID, events, request>>
    /\ RunnerFrame

\* Lines 68-72.
RunValidate ==
    /\ runner.pc = "validate"
    /\ runner' = IF validation_failed(runner.sub.code)
                 THEN [runner EXCEPT !.pc = "report", !.ok = FALSE, !.result = "rejected"]
                 ELSE [runner EXCEPT !.pc = "spawn"]
    /\ UNCHANGED <<storeVars, request>>
    /\ RunnerFrame

\* Lines 75-85 and 106-108: Popen starts a worker, or raises.
RunSpawn(started) ==
    /\ runner.pc = "spawn"
    /\ runner' = IF started
                 THEN [runner EXCEPT !.pc = "communicate",
                                     !.process = Len(runner.workers) + 1,
                                     !.workers = Append(@, [id |-> runner.sub.id,
                                                            code |-> runner.sub.code,
                                                            state |-> "running",
                                                            returncode |-> -1])]
                 ELSE [runner EXCEPT !.pc = "report", !.ok = FALSE, !.result = "spawn error"]
    /\ UNCHANGED <<storeVars, request>>
    /\ RunnerFrame

\* Lines 88-99: the worker exits with returncode before the timeout.
RunExit(returncode) ==
    /\ runner.pc = "communicate"
    /\ runner' = [runner EXCEPT !.pc = "report",
                                !.workers[runner.process].state = "exited",
                                !.workers[runner.process].returncode = returncode,
                                !.ok = succeeded(returncode),
                                !.result = "exited"]
    /\ UNCHANGED <<storeVars, request>>
    /\ RunnerFrame

\* Lines 88 and 101-105: the timeout expires first; the worker is killed.
RunTimeout ==
    /\ runner.pc = "communicate"
    /\ runner' = [runner EXCEPT !.pc = "report",
                                !.workers = kill(@, runner.process),
                                !.ok = FALSE,
                                !.result = "timeout"]
    /\ UNCHANGED <<storeVars, request>>
    /\ RunnerFrame

\* Lines 119-124: a success is posted as the event "finished", a failure is
\* printed.
RunReport ==
    /\ runner.pc = "report"
    /\ events' = IF runner.ok THEN broadcast(events, <<"finished", runner.sub.id>>) ELSE events
    /\ runner' = [runner EXCEPT !.pc = "poll", !.sub = None, !.process = 0, !.ok = FALSE,
                                !.result = "none",
                                !.done = Append(@, [id |-> runner.sub.id, ok |-> runner.ok,
                                                    result |-> runner.result,
                                                    process |-> runner.process])]
    /\ UNCHANGED <<SUBMISSIONS, PROMPTS_HISTORY, VOTES, APPROVED, APPROVED_PROMPTS, NEXT_ID,
                   request>>
    /\ RunnerFrame

RunnerNext ==
    \/ \E code \in SeqsUpTo(RunnerAlphabet, MaxRunCode) : RunSubmit(code)
    \/ RunGet
    \/ RunValidate
    \/ \E started \in BOOLEAN : RunSpawn(started)
    \/ \E returncode \in {0, 1} : RunExit(returncode)
    \/ RunTimeout
    \/ RunReport

RunnerSpec == Init /\ [][RunnerNext]_vars

----------------------------------------------------------------------------
\* The hand-off channels APPROVED and APPROVED_PROMPTS (src/backend/main.py):
\* pushed by /submit and /prompt/win, pulled by /approved/next and
\* /approved/prompt/next, emptied by /clear

Channels == {"APPROVED", "APPROVED_PROMPTS"}

Items(q) == IF q = "APPROVED" THEN APPROVED ELSE APPROVED_PROMPTS

\* The answer of a pull whose wait_for timed out.
expired == "{}"

\* The item stays on the queue.
approved_prompt_next_Peek == UNCHANGED APPROVED_PROMPTS

\* GET /approved/prompt/next takes the item off the queue.
approved_prompt_next == APPROVED_PROMPTS' = Tail(APPROVED_PROMPTS)

\* Queue.get() of channel q returns.
Take(q) ==
    IF q = "APPROVED"
    THEN approved_next /\ UNCHANGED APPROVED_PROMPTS
    ELSE approved_prompt_next /\ UNCHANGED APPROVED

ChanFrame == UNCHANGED <<botVars, mover, seen, intake, orch, runner, admin, applied, sender>>

\* POST /submit of a prompt or of actions that pass the screening; the actions
\* are pushed by put_nowait, whose QueueFull the handler swallows.
ChanSubmit(type) ==
    /\ request.calls < MaxPushes
    /\ submit(type, IF type = "prompt" THEN <<"draw a blue bird">> ELSE <<"agent.log(1)">>)
    /\ chan' = IF type = "actions"
               THEN [chan EXCEPT !.pushed = Append(@, [q |-> "APPROVED", id |-> NEXT_ID])]
               ELSE chan
    /\ ChanFrame

\* The wins reported so far, served or waiting for room on the queue.
Wins == Len(SelectSeq(chan.pushed, LAMBDA p : p.q = "APPROVED_PROMPTS")) + chan.blocked

\* POST /prompt/win: the outcome is stored, then the handler awaits
\* APPROVED_PROMPTS.put, which waits while the queue is full.
ChanWin(sid) ==
    /\ Wins < MaxWins
    /\ sid \in DOMAIN SUBMISSIONS
    /\ SUBMISSIONS[sid].type = "prompt"
    /\ IF full(APPROVED_PROMPTS)
       THEN /\ SUBMISSIONS' = [SUBMISSIONS EXCEPT ![sid] =
                                  [outcome |-> "won",
                                   clean_text |-> prepare_prompt_for_ai(SUBMISSIONS[sid].text)]
                                  @@ @]
            /\ chan' = [chan EXCEPT !.blocked = @ + 1]
            /\ UNCHANGED <<APPROVED_PROMPTS, events>>
       ELSE /\ prompt_win_text(sid)
            /\ chan' = [chan EXCEPT !.pushed = Append(@, [q |-> "APPROVED_PROMPTS", id |-> sid])]
    /\ UNCHANGED <<PROMPTS_HISTORY, VOTES, APPROVED, NEXT_ID, request>>
    /\ ChanFrame

\* What a pull that returns the head of q to consumer c leaves behind; waited
\* says whether the pull found the queue empty when it was called.
Delivered(c, q, waited) ==
    [chan EXCEPT !.cons[c] = [pc |-> "idle", q |-> "none"],
                 !.returned = Append(@, [c |-> c, q |-> q, id |-> Head(Items(q)).id]),
                 !.answers = @ \cup {[kind |-> "item", waited |-> waited]}]

\* Consumer c calls GET /approved/next or GET /approved/prompt/next: get()
\* returns at once if an item is queued, else the handler waits in wait_for.
PullCall(c, q) ==
    /\ chan.cons[c].pc = "idle"
    /\ IF Items(q) # <<>>
       THEN /\ Take(q)
            /\ chan' = Delivered(c, q, FALSE)
       ELSE /\ chan' = [chan EXCEPT !.cons[c] = [pc |-> "waiting", q |-> q]]
            /\ UNCHANGED <<APPROVED, APPROVED_PROMPTS>>
    /\ UNCHANGED <<SUBMISSIONS, PROMPTS_HISTORY, VOTES, NEXT_ID, events, request>>
    /\ ChanFrame

\* An item arrived within the second: the waiting get() returns it.
PullWake(c) ==
    /\ chan.cons[c].pc = "waiting"
    /\ Items(chan.cons[c].q) # <<>>
    /\ Take(chan.cons[c].q)
    /\ chan' = Delivered(c, chan.cons[c].q, TRUE)
    /\ UNCHANGED <<SUBMISSIONS, PROMPTS_HISTORY, VOTES, NEXT_ID, events, request>>
    /\ ChanFrame

\* The second is over: wait_for raises TimeoutError and the handler answers
\* {}; an item that arrives as the timeout fires stays queued.
PullExpire(c) ==
    /\ chan.cons[c].pc = "waiting"
    /\ chan' = [chan EXCEPT !.cons[c] = [pc |-> "idle", q |-> "none"],
                            !.answers = @ \cup {[kind |-> expired, waited |-> TRUE]}]
    /\ UNCHANGED storeVars
    /\ UNCHANGED request
    /\ ChanFrame

\* The ids of the items on the two queues, by channel.
OnChannels ==
    [i \in DOMAIN APPROVED |-> [q |-> "APPROVED", id |-> APPROVED[i].id]]
    \o [i \in DOMAIN APPROVED_PROMPTS |-> [q |-> "APPROVED_PROMPTS", id |-> APPROVED_PROMPTS[i].id]]

\* POST /clear with the admin key: the items get_nowait takes are dropped.
ChanClear ==
    /\ Broadcasts("cleared") < MaxClears
    /\ clear
    /\ chan' = [chan EXCEPT !.cleared = @ \o OnChannels]
    /\ UNCHANGED request
    /\ ChanFrame

ChannelNext ==
    \/ \E type \in {"prompt", "actions"} : ChanSubmit(type)
    \/ \E sid \in 1..MaxPushes : ChanWin(sid)
    \/ \E c \in Consumers : \E q \in Channels : PullCall(c, q)
    \/ \E c \in Consumers : PullWake(c)
    \/ \E c \in Consumers : PullExpire(c)
    \/ ChanClear

ChannelSpec == Init /\ [][ChannelNext]_vars

----------------------------------------------------------------------------
\* The privileged endpoints /decide, /clear, /prompt/clean/update and
\* /prompt/clean/rebuild next to /submit, /prompt/win and a thread that serves
\* /move-to-history (src/backend/main.py)

\* The x-admin-key header of a request: absent, the secret, or another value.
Headers == {Unset, Secret, "wrong"}

\* require_admin returns (it raises 401 otherwise).
require_admin(x_admin_key) == x_admin_key = admin.ADMIN_KEY

\* The privileged call op with the given header was answered with a status.
Answered(op, header, status) ==
    [admin EXCEPT !.calls = @ + 1, !.op = op, !.header = header, !.answer = status]

AdminFrame == UNCHANGED <<botVars, mover, seen, intake, orch, runner, chan, applied, sender>>

\* POST /submit of a prompt or of actions that pass the screening.
AdmSubmit(type) ==
    /\ request.calls < MaxPushes
    /\ submit(type, IF type = "prompt" THEN <<"draw a blue bird">> ELSE <<"agent.log(1)">>)
    /\ UNCHANGED admin
    /\ AdminFrame

\* POST /prompt/win for a prompt in active storage.
AdmWin(sid) ==
    /\ sid \in DOMAIN SUBMISSIONS
    /\ SUBMISSIONS[sid].type = "prompt"
    /\ SUBMISSIONS[sid].outcome # "won"
    /\ prompt_win_text(sid)
    /\ UNCHANGED <<PROMPTS_HISTORY, VOTES, APPROVED, NEXT_ID, request, admin>>
    /\ AdminFrame

\* POST /clear; a call with the secret wipes all ids given out so far.
AdmClear(header) ==
    /\ admin.calls < MaxAdminCalls
    /\ IF require_admin(header)
       THEN /\ clear
            /\ admin' = [Answered("clear", header, 200) EXCEPT
                            !.wiped = IF header = Secret THEN 1..(NEXT_ID - 1) ELSE @]
       ELSE /\ admin' = Answered("clear", header, 401)
            /\ UNCHANGED storeVars
    /\ UNCHANGED request
    /\ AdminFrame

\* POST /decide that rejects sid.
AdmDecide(sid, header) ==
    /\ admin.calls < MaxAdminCalls
    /\ IF require_admin(header)
       THEN /\ decide_reject(sid)
            /\ admin' = Answered("decide", header, 200)
       ELSE /\ admin' = Answered("decide", header, 401)
            /\ UNCHANGED <<SUBMISSIONS, events>>
    /\ UNCHANGED <<PROMPTS_HISTORY, VOTES, APPROVED, APPROVED_PROMPTS, NEXT_ID, request>>
    /\ AdminFrame

\* What /prompt/clean/update and /prompt/clean/rebuild do once admitted: 404
\* unless sid is a prompt in active storage, else the clean text is stored.
set_clean_text(op, sid, header, clean) ==
    IF sid \in DOMAIN SUBMISSIONS /\ SUBMISSIONS[sid].type = "prompt"
    THEN /\ SUBMISSIONS' = [SUBMISSIONS EXCEPT ![sid] = [clean_text |-> clean] @@ @]
         /\ events' = broadcast(events, <<op, sid>>)
         /\ admin' = Answered(op, header, 200)
    ELSE /\ admin' = Answered(op, header, 404)
         /\ UNCHANGED <<SUBMISSIONS, events>>

\* POST /prompt/clean/update with the moderator's text.
AdmCleanUpdate(sid, header, text) ==
    /\ admin.calls < MaxAdminCalls
    /\ IF require_admin(header)
       THEN set_clean_text("prompt_clean_updated", sid, header, strip(text))
       ELSE /\ admin' = Answered("prompt_clean_updated", header, 401)
            /\ UNCHANGED <<SUBMISSIONS, events>>
    /\ UNCHANGED <<PROMPTS_HISTORY, VOTES, APPROVED, APPROVED_PROMPTS, NEXT_ID, request>>
    /\ AdminFrame

\* POST /prompt/clean/rebuild; without a grammar service the text is its own
\* correction.
AdmCleanRebuild(sid, header) ==
    /\ admin.calls < MaxAdminCalls
    /\ IF require_admin(header)
       THEN set_clean_text("prompt_clean_rebuilt", sid, header,
                           IF sid \in DOMAIN SUBMISSIONS /\ SUBMISSIONS[sid].type = "prompt"
                           THEN prepare_prompt_for_ai(SUBMISSIONS[sid].text) ELSE <<>>)
       ELSE /\ admin' = Answered("prompt_clean_rebuilt", header, 401)
            /\ UNCHANGED <<SUBMISSIONS, events>>
    /\ UNCHANGED <<PROMPTS_HISTORY, VOTES, APPROVED, APPROVED_PROMPTS, NEXT_ID, request>>
    /\ AdminFrame

AdminNext ==
    \/ \E type \in {"prompt", "actions"} : AdmSubmit(type)
    \/ \E sid \in 1..MaxPushes : AdmWin(sid)
    \/ \E header \in Headers : AdmClear(header)
    \/ \E sid \in 1..MaxPushes : \E header \in Headers : AdmDecide(sid, header)
    \/ \E sid \in 1..MaxPushes : \E header \in Headers :
          AdmCleanUpdate(sid, header, <<" ", "draw a blue bird">>)
    \/ \E sid \in 1..MaxPushes : \E header \in Headers : AdmCleanRebuild(sid, header)
    \/ \E ids \in Batches(DOMAIN SUBMISSIONS, MaxBatch) : MoveCall(ids)
    \/ MoveCheck
    \/ MovePut
    \/ MoveDel
    \/ MoveDelVotes
    \/ MoveEnd

\* The deployment sets ADMIN_KEY, or leaves it unset.
AdminInit ==
    /\ BotInit
    /\ StoreInit
    /\ PoolInit
    /\ \E key \in {Unset, Secret} : admin = NoAdmin(key)
    /\ applied = NoApplied

AdminSpec == AdminInit /\ [][AdminNext]_vars

----------------------------------------------------------------------------
\* Properties of the poll engine

\* A session that was started and whose poll end_poll_session has not yet reset.
InProgress(s) == sess[s].phase \in {"announce", "timer", "win", "move"} /\ s \notin closed

\* C1: at most one poll session is in progress at any time: start_poll_session
\* is never entered while an earlier session was started and not yet finished.
C1_AtMostOneOpenSession == Cardinality({s \in Sessions : InProgress(s)}) <= 1

CandidateIndices == 0..(Len(current_poll) - 1)

\* C2: a vote cast while no session is open (no current poll, or accepting_votes
\* false) or for an index that is no candidate index changes no tally and no
\* other field of the bot or the store: cast_vote returns silently.
C2_DroppedVoteChangesNothing ==
    [][\A i \in 0..(VoteCommands - 1) :
          (cast_vote(i) /\ (current_poll = None \/ ~accepting_votes \/ i \notin CandidateIndices))
             => UNCHANGED <<poll_votes, current_poll, accepting_votes, is_processing,
                            pending_prompts, chat_queue, storeVars>>]_vars

\* C2, witnessed: a vote for !3..!5 was dropped while a poll with fewer
\* candidates was accepting votes and had counted a vote.
C2_Witness ==
    /\ last_vote = "range"
    /\ current_poll # None
    /\ accepting_votes
    /\ Total(poll_votes) > 0

\* The position in current_poll of the winner that session s's end_poll_session chose.
WinnerPos(s) == CHOOSE i \in DOMAIN current_poll : current_poll[i].id = sess[s].arg[1]
TallyAt(i) == poll_votes[i - 1]

\* C3: the winner end_poll_session picks has the maximum tally, and no candidate
\* with the same tally has an earlier timestamp: for every tally and timestamp
\* assignment no candidate with fewer votes, or with equal votes and a later
\* timestamp, wins.
C3_WinnerMaxTallyEarliest ==
    \A s \in Sessions :
        sess[s].phase = "win" =>
            \A j \in DOMAIN current_poll :
                /\ TallyAt(j) <= TallyAt(WinnerPos(s))
                /\ TallyAt(j) = TallyAt(WinnerPos(s))
                      => current_poll[WinnerPos(s)].timestamp <= current_poll[j].timestamp

\* C3, witnessed: a tie for the maximum tally was broken in favour of a candidate
\* listed after another tied candidate with a later timestamp.
C3_Witness ==
    \E s \in Sessions :
        /\ sess[s].phase = "win"
        /\ \E j \in DOMAIN current_poll :
              /\ j < WinnerPos(s)
              /\ TallyAt(j) = TallyAt(WinnerPos(s))
              /\ TallyAt(j) > 0
              /\ current_poll[j].timestamp > current_poll[WinnerPos(s)].timestamp

\* C4: every closed session put exactly one winner on the prompt-winner channel
\* (one prompt_win served, hence one item and one prompt_won event).
C4_ExactlyOneWinnerPerSession == \A s \in closed : wins[s] = 1

\* C5: when end_poll_session completes, every candidate of the session has left
\* active storage and is in history, and the engine is Idle.
C5_AllCandidatesArchived ==
    [][\A s \in Sessions :
          (EndMove(s) /\ current_poll # None)
             => /\ \A c \in Ids(current_poll) :
                      c \notin DOMAIN SUBMISSIONS' /\ c \in DOMAIN PROMPTS_HISTORY'
                /\ poll_votes' = <<>>
                /\ ~is_processing'
                /\ ~accepting_votes']_vars

\* An announcement of session s is still queued, or was given up unsent.
Undelivered(s) ==
    \/ s \in lost
    \/ \E k \in DOMAIN chat_queue : IsAnnouncement(chat_queue[k]) /\ chat_queue[k][2] = s

\* C6: the voting timer of a session starts only after all the announcements of
\* that session were delivered to the chat.
C6_TimerAfterAnnouncements ==
    [][\A s \in Sessions :
          (sess[s].phase = "announce" /\ sess'[s].phase = "timer") => ~Undelivered(s)]_vars

\* The engine's Idle state.
Idle == ~is_processing /\ ~accepting_votes /\ current_poll = None /\ poll_votes = <<>>

\* C7: when the main loop finds the engine marked as processing with the timer
\* task completed (the failsafe's test), the iteration leaves the engine Idle,
\* unless it starts a new session right away.
C7_FailsafeForcesIdle ==
    [][(Failsafe /\ MainIter /\ Len(sess') = Len(sess)) => Idle']_vars

\* C8: the timer of a session resolves that session, once, when its window
\* elapses: its end_poll_session finds the session's own poll and closes it.
C8_TimerResolvesItsOwnSession ==
    \A s \in Sessions :
        /\ sess[s].phase \in {"win", "move"} => sess[s].rs = s
        /\ sess[s].phase = "done" => s \in closed /\ sess[s].rs = s
        /\ sess[s].phase # "crashed"

----------------------------------------------------------------------------
\* Properties of the backend store

\* C9: a client never sees an id both in the answer of /history and in the
\* answer of the /queue it asked for afterwards (ids only move from active
\* storage to history, so such an id was in both stores at once).
C9_NoIdInBothStores == seen.pc = "queue" => seen.history \cap seen.queue = {}

\* C10: a client whose two reads fall within one call of /move-to-history never
\* sees one id of the batch in history and another id of the batch still queued.
C10_BatchAllOrNothing ==
    (seen.pc = "queue" /\ seen.call # 0 /\ seen.call = mover.call)
        => ~\E x, y \in Range(mover.prompt_ids) :
               x # y /\ x \in seen.history /\ y \in seen.queue

----------------------------------------------------------------------------
\* Properties of the intake

\* C11: the ids of the submissions created so far, in creation order, are
\* strictly increasing, hence pairwise different and never reused, whatever
\* was rejected, archived or cleared in between.
C11_IdsUniqueIncreasing ==
    \A i, j \in DOMAIN intake.created : i < j => intake.created[i] < intake.created[j]

\* A change of status that goes forward: none, a queued submission that is
\* rejected, or an approved one that is completed.
Forward(a, b) ==
    \/ a = b
    \/ a = "queued" /\ b = "rejected"
    \/ a = "approved" /\ b = "completed"

\* C12: no operation moves the status of a submission in active storage other
\* than forward, only a queued submission is archived, as processed, and an
\* archived record neither changes its status nor returns to active storage.
C12_StatusOnlyForward ==
    [][/\ \A i \in DOMAIN SUBMISSIONS \cap DOMAIN SUBMISSIONS' :
             Forward(SUBMISSIONS[i].status, SUBMISSIONS'[i].status)
       /\ \A i \in DOMAIN PROMPTS_HISTORY' \ DOMAIN PROMPTS_HISTORY :
             /\ i \in DOMAIN SUBMISSIONS /\ SUBMISSIONS[i].status = "queued"
             /\ PROMPTS_HISTORY'[i].status = "processed"
       /\ \A i \in DOMAIN PROMPTS_HISTORY \cap DOMAIN PROMPTS_HISTORY' :
             /\ PROMPTS_HISTORY'[i].status = PROMPTS_HISTORY[i].status
             /\ i \notin DOMAIN SUBMISSIONS => i \notin DOMAIN SUBMISSIONS']_vars

----------------------------------------------------------------------------
\* Properties of the screening

\* The content passes the filter of its type.
Acceptable(type, content) ==
    IF type = "prompt"
    THEN /\ strip(content) # <<>>
         /\ len(strip(content)) <= MaxPromptLen
         /\ prompt_violation(strip(content)) = "none"
    ELSE ~banned_patterns(lower(content))

\* C13: every record of SUBMISSIONS and every item of APPROVED holds content
\* that passes the filter of its type, and a call of submit whose content fails
\* it leaves SUBMISSIONS, APPROVED and NEXT_ID as they were.
C13_ScreenedBeforeStored ==
    [][/\ \A i \in DOMAIN SUBMISSIONS' :
             Acceptable(SUBMISSIONS'[i].type,
                        IF SUBMISSIONS'[i].type = "prompt" THEN SUBMISSIONS'[i].text
                        ELSE SUBMISSIONS'[i].code)
       /\ \A k \in DOMAIN APPROVED' : Acceptable("actions", APPROVED'[k].code)
       /\ (request'.calls # request.calls /\ ~Acceptable(request'.type, request'.content))
             => UNCHANGED <<SUBMISSIONS, APPROVED, NEXT_ID>>]_vars

\* A request was stored and the next one, actions with a disallowed token, was
\* turned away.
C13_Witness ==
    /\ request.calls = 2 /\ request.type = "actions"
    /\ ~Acceptable(request.type, request.content)
    /\ DOMAIN SUBMISSIONS = {1} /\ NEXT_ID = 2

\* C14: the actions the orchestrator produces, from the service or synthesized,
\* are handed to submit, which puts them on APPROVED only if its denylist lets
\* them pass; no item of APPROVED holds code that the denylist rejects.
C14_OrchestratorOutputScreened ==
    [][/\ (orch.pc = "generate" /\ orch'.pc = "drain")
             => /\ request'.calls = request.calls + 1
                /\ request'.type = "actions"
                /\ \E reply \in SeqsUpTo(CodeAlphabet, MaxCode) :
                      request'.content = orch_actions(orch.latest.text, reply)
                /\ banned_patterns(lower(request'.content)) => APPROVED' = APPROVED
       /\ \A k \in DOMAIN APPROVED' : ~banned_patterns(lower(APPROVED'[k].code))]_vars

\* The orchestrator has synthesized actions for a winner whose text has a
\* disallowed token, submit has turned them away, and APPROVED is empty.
C14_Witness ==
    /\ orch.pc = "drain" /\ request.type = "actions"
    /\ request.content[1] = "agent.log(0); agent.write_output("
    /\ banned_patterns(lower(request.content))
    /\ APPROVED = <<>>

----------------------------------------------------------------------------
\* Properties of the runner

\* The number of events of the given type about submission id
Reported(type, id) == IF <<type, id>> \in DOMAIN events THEN events[<<type, id>>] ELSE 0

\* The tasks the runner is through with
Done == {runner.done[k] : k \in DOMAIN runner.done}

\* C15: every worker was spawned for code that validate_snippet accepts, and a
\* task whose code it rejects ends as a failure without a worker.
C15_RejectedNeverExecuted ==
    /\ \A k \in DOMAIN runner.workers : validate_snippet(runner.workers[k].code)
    /\ \A d \in Done : d.result = "rejected" =>
          /\ ~d.ok /\ d.process = 0
          /\ \A k \in DOMAIN runner.workers : runner.workers[k].id # d.id

\* A task was turned away by the validation, and no worker was spawned.
C15_Witness ==
    /\ \E d \in Done : d.result = "rejected"
    /\ runner.workers = <<>>
    /\ runner.pc = "poll"

\* C16: a task is a success, and the event "finished" is posted for it, only if
\* its worker exited with code 0 before the timeout.
C16_SuccessOnlyOnExitZero ==
    /\ \A d \in Done : d.ok =>
          /\ d.result = "exited" /\ d.process \in DOMAIN runner.workers
          /\ runner.workers[d.process].state = "exited"
          /\ runner.workers[d.process].returncode = 0
    /\ \A id \in 1..MaxTasks : Reported("finished", id) > 0 => \E d \in Done : d.id = id /\ d.ok

\* One worker exited with a code other than 0 and its task failed, another
\* task succeeded.
C16_Witness ==
    /\ \E d \in Done : d.result = "exited" /\ ~d.ok /\ runner.workers[d.process].returncode = 1
    /\ \E d \in Done : d.ok

\* C17: a task whose worker ran into the timeout is a failure and its worker
\* has been killed; between two tasks no worker is running.
C17_TimeoutKillsWorker ==
    /\ \A d \in Done : d.result = "timeout" =>
          ~d.ok /\ runner.workers[d.process].state = "killed"
    /\ runner.pc \in {"poll", "validate", "spawn"} =>
          \A k \in DOMAIN runner.workers : runner.workers[k].state # "running"

\* Two tasks in a row ran into the timeout.
C17_Witness ==
    /\ Len(runner.done) = 2
    /\ \A d \in Done : d.result = "timeout"
    /\ runner.pc = "poll"

\* C18: no submission gets more than one worker or more than one outcome.
C18_OneAttemptPerTask ==
    \A id \in 1..MaxTasks :
       /\ Cardinality({k \in DOMAIN runner.workers : runner.workers[k].id = id}) <= 1
       /\ Cardinality({k \in DOMAIN runner.done : runner.done[k].id = id}) <= 1

\* The first task failed in its worker and the runner went on to the second.
C18_Witness ==
    /\ Len(runner.done) = 2
    /\ runner.done[1].result \in {"exited", "timeout"} /\ ~runner.done[1].ok
    /\ runner.done[2].id # runner.done[1].id
    /\ Len(runner.workers) = 2

\* C19: a task that was given a worker has exactly one outcome event:
\* "finished" if it succeeded, "failed" if it did not.
C19_OneOutcomeEvent ==
    \A d \in Done : d.process # 0 =>
       /\ Reported("finished", d.id) + Reported("failed", d.id) = 1
       /\ d.ok <=> Reported("finished", d.id) = 1

\* C20: when the execution of a task failed or ran into the timeout, an event
\* reports the failure and the submission is stored as failed or rejected.
C20_FailureReportedAndStored ==
    \A d \in Done : (d.process # 0 /\ ~d.ok) =>
       /\ Reported("failed", d.id) > 0
       /\ d.id \in DOMAIN SUBMISSIONS => SUBMISSIONS[d.id].status \in {"failed", "rejected"}

----------------------------------------------------------------------------
\* Properties of the hand-off channels (ChannelSpec)

\* C21: a push never waits and a pull never errors.  No call of /submit or of
\* /prompt/win is left waiting for room on its queue, however many items are
\* queued; every pull is answered with the head item or with {}, never with an
\* error; {} is the answer only of a pull that found its queue empty and waited
\* for the timeout, and a pull that finds an item queued returns it at once.
C21_PushNeverBlocksPullNeverErrors ==
    /\ chan.blocked = 0
    /\ \A a \in chan.answers : /\ a.kind \in {"item", "{}"}
                               /\ a.kind = "{}" => a.waited
    /\ \A c \in Consumers : chan.cons[c].pc \in {"idle", "waiting"}

\* A second item was pushed onto a channel that held one, and pulls were
\* answered with an item and, after a wait on an empty queue, with {}.
C21_Witness ==
    /\ Len(APPROVED_PROMPTS) = 2
    /\ [kind |-> "{}", waited |-> TRUE] \in chan.answers
    /\ \E a \in chan.answers : a.kind = "item"

\* How often the item of channel q with the given id occurs in a list of items.
Occurrences(list, p) == Len(SelectSeq(list, LAMBDA x : x.q = p.q /\ x.id = p.id))

Pulled == [i \in DOMAIN chan.returned |-> [q |-> chan.returned[i].q, id |-> chan.returned[i].id]]

\* C22 as stated: every pushed item is, at any moment, either still on its
\* channel or was returned by exactly one pull; none was returned twice and
\* none left the channel in any other way.
C22_DeliveredExactlyOnce ==
    \A i \in DOMAIN chan.pushed :
        Occurrences(chan.pushed, chan.pushed[i])
            = Occurrences(OnChannels, chan.pushed[i]) + Occurrences(Pulled, chan.pushed[i])

\* C22 amended: every pushed item is still on its channel, or was returned by
\* exactly one pull, or was dropped by a call of /clear; none is returned twice.
C22_DeliveredOnceOrCleared ==
    \A i \in DOMAIN chan.pushed :
        Occurrences(chan.pushed, chan.pushed[i])
            = Occurrences(OnChannels, chan.pushed[i]) + Occurrences(Pulled, chan.pushed[i])
              + Occurrences(chan.cleared, chan.pushed[i])

\* Two consumers pulled from the same channel and each got an item, while
\* a third item was dropped by /clear.
C22_Witness ==
    /\ \E i, j \in DOMAIN chan.returned :
          /\ chan.returned[i].c # chan.returned[j].c
          /\ chan.returned[i].q = chan.returned[j].q
    /\ chan.cleared # <<>>

----------------------------------------------------------------------------
\* Properties of the path from a rejection to the winner (Spec)

\* C29: a prompt a moderator rejected stays out of the pipeline.  No step
\* pushes the id of a prompt whose status is "rejected" onto the
\* prompt-winner channel or sets its outcome to "won", whatever poll it is a
\* candidate of.
C29_RejectedNeverWins ==
    [][\A sid \in DOMAIN SUBMISSIONS :
          SUBMISSIONS[sid].status = "rejected" =>
              /\ sid \in DOMAIN SUBMISSIONS' /\ SUBMISSIONS'[sid].outcome = SUBMISSIONS[sid].outcome
              /\ ~(/\ Len(APPROVED_PROMPTS') > Len(APPROVED_PROMPTS)
                   /\ APPROVED_PROMPTS'[Len(APPROVED_PROMPTS')] = sid)]_vars

\* C30: the main loop opens a session only when at least PollSize prompts are
\* pending and no session is open.  A step in which main_processing_loop calls
\* start_poll_session starts with PollSize or more pending prompts, with
\* is_processing false and with no session in progress.
C30_AutoPollOnlyWhenIdle ==
    [][(Len(sess') > Len(sess) /\ sess'[Len(sess')].who = "main") =>
          /\ Len(pending_prompts) >= PollSize
          /\ ~is_processing
          /\ \A s \in Sessions : ~InProgress(s)]_vars

----------------------------------------------------------------------------
\* Progress of start_poll_session (AutoSpec)

\* The call of start_poll_session that made session s waits for its flush event.
Waiting(s) == s \in Sessions /\ sess[s].phase = "announce"

\* C25: every call of start_poll_session eventually gets past its wait for the
\* flush marker, under every interleaving of automatic and forced poll starts
\* with the chat sender.
C25_FlushWaitEnds == \A s \in 1..MaxWork : Waiting(s) ~> ~Waiting(s)

----------------------------------------------------------------------------
\* Properties of the chat sender (ChatSpec)

\* C23: the messages that reach the chat were all sent by chat_sender_loop, in
\* the order in which queue_chat was called, one at a time: each message sent
\* was queued before and has left the queue, the places of the messages sent
\* grow strictly, and at most one send is under way at any moment.
C23_SentInQueueOrder ==
    /\ \A i \in DOMAIN sender.sent :
          /\ sender.sent[i][3] \in 1..sender.queued
          /\ sender.sent[i][1] # "flush"
          /\ \A k \in DOMAIN chat_queue : chat_queue[k] # sender.sent[i]
    /\ \A i, j \in DOMAIN sender.sent : i < j => sender.sent[i][3] < sender.sent[j][3]
    /\ Cardinality(sender.sending) <= 1
    /\ sender.sending \subseteq {sender.msg}

\* Two messages reached the chat around one that was given up, while a later
\* one was already queued.
C23_Witness ==
    /\ Len(sender.sent) = 2
    /\ sender.sent[2][3] > sender.sent[1][3] + 1
    /\ chat_queue # <<>>

----------------------------------------------------------------------------
\* Properties of the privileged endpoints (AdminSpec)

\* C24: a privileged call that does not carry the shared secret is answered
\* 401 Unauthorized and leaves the state of the backend as it was.
C24_NoSecretNoEffect ==
    [][(admin'.calls > admin.calls /\ admin'.header # Secret) =>
          (admin'.answer = 401 /\ UNCHANGED storeVars)]_vars

\* C28: after an authorized /clear no submission created before it is left:
\* none of the ids given out before the call is in active storage, in the
\* history or on a hand-off channel, at the end of the call and ever after.
C28_WipedStaysGone ==
    \A sid \in admin.wiped :
        /\ sid \notin DOMAIN SUBMISSIONS
        /\ sid \notin DOMAIN PROMPTS_HISTORY
        /\ sid \notin DOMAIN VOTES
        /\ \A k \in DOMAIN OnChannels : OnChannels[k].id # sid
\* C26: prepare_prompt_for_ai is idempotent: applied to its own result, it
\* returns that result unchanged, for every text.
C26_CleanIdempotent ==
    (applied.fn = "prepare_prompt_for_ai" /\ applied.times = 2) => applied.twice = applied.once

\* What a snippet contains, read off its text.
ImportLike(src) == \E i \in DOMAIN src : src[i] = "import os"
UnderscoreAttribute(src) == \E i \in DOMAIN src : src[i] = "agent._x"
OtherName(src) == \E i \in DOMAIN src : src[i] \in {"x", "print(1)"}
OtherCall(src) == \E i \in DOMAIN src : src[i] \in {"print(1)", "agent(1)", "agent.a.b(1)"}

\* C27: validate_snippet rejects every snippet that contains an import, an
\* attribute whose name starts with an underscore, a name other than agent or a
\* call that is not agent.<method>(...), and it accepts the snippets of one
\* and of two calls agent.log(1).
C27_SnippetAllowlist ==
    (applied.fn = "validate_snippet" /\ applied.times = 1) =>
        /\ (\/ ImportLike(applied.arg)
            \/ UnderscoreAttribute(applied.arg)
            \/ OtherName(applied.arg)
            \/ OtherCall(applied.arg)) => applied.valid = "ValueError"
        /\ applied.arg \in {<<"agent.log(1)">>, <<"agent.log(1)", "newline", "agent.log(1)">>}
              => applied.valid = "ok"

\* A snippet whose first line is allowed and whose second line calls a method
\* of an attribute of agent has been rejected.
C27_Witness ==
    /\ applied.fn = "validate_snippet"
    /\ applied.times = 1
    /\ applied.arg = <<"agent.log(1)", "newline", "agent.a.b(1)">>
    /\ applied.valid = "ValueError"

\* C31: the candidates of a session are sampled without replacement from the
\* pending prompts: whenever start_poll_session is called, no prompt is twice
\* among the candidates, every candidate is a pending prompt with an id that the
\* backend gave out, a session of the main loop has PollSize candidates, and
\* the tally of every candidate is zero.
C31_SampledWithoutReplacement ==
    [][Len(sess') = Len(sess) + 1 =>
          /\ \A i, j \in DOMAIN current_poll' :
                current_poll'[i].id = current_poll'[j].id => i = j
          /\ \A i \in DOMAIN current_poll' :
                /\ current_poll'[i] \in Range(pending_prompts)
                /\ current_poll'[i].id \in 1..(NEXT_ID - 1)
          /\ sess'[Len(sess')].who = "main" => Len(current_poll') = PollSize
          /\ poll_votes' = [i \in 0..(Len(current_poll') - 1) |-> 0]]_vars

\* The main loop has started a session of PollSize candidates, after an
\* earlier call of start_poll_session, and no vote has been counted yet.
C31_Witness ==
    /\ poll_sess > 1
    /\ sess[poll_sess].who = "main"
    /\ sess[poll_sess].phase = "announce"
    /\ Len(current_poll) = PollSize
    /\ \A i \in DOMAIN poll_votes : poll_votes[i] = 0

Handled(k) ==
    /\ sender.queued >= k
    /\ \A i \in DOMAIN chat_queue : chat_queue[i][3] # k
    /\ sender.msg = None \/ sender.msg[3] # k

\* C33: the retries of the chat sender are bounded: a message gets SendAttempts
\* attempts at most, none after the one that succeeded, and the sender gets
\* done with every queued message, whether the sends before it fail or not.
C33_RetriesBounded ==
    /\ [](sender.attempt < SendAttempts)
    /\ [](\A i \in DOMAIN sender.sent : sender.sent[i] # sender.msg)
    /\ \A k \in 1..MaxChat : (sender.queued >= k) ~> Handled(k)

\* A message was given up after its last attempt had failed, and a message
\* queued behind it has reached the chat.
C33_Witness ==
    \E k \in sender.gaveup : \E i \in DOMAIN sender.sent : sender.sent[i][3] > k

\* C34: a tally belongs to one session.  When start_poll_session is called,
\* poll_votes is zero on the indices of the new candidates and on nothing else;
\* a vote is counted only for a candidate of the poll held at that moment and
\* leaves the poll as it is; whenever the poll changes or ends no vote is
\* carried over; and the winner is chosen among the candidates of the poll
\* held, by the tally of that poll.
C34_TallyOfOneSession ==
    [][/\ Len(sess') = Len(sess) + 1 =>
             /\ DOMAIN poll_votes' = 0..(Len(current_poll') - 1)
             /\ \A i \in DOMAIN poll_votes' : poll_votes'[i] = 0
       /\ poll_sess' # poll_sess => \A i \in DOMAIN poll_votes' : poll_votes'[i] = 0
       /\ (poll_sess # 0 /\ poll_sess' = 0) => poll_votes' = <<>>
       /\ \A i \in DOMAIN poll_votes' :
             (i \notin DOMAIN poll_votes \/ poll_votes'[i] > poll_votes[i]) =>
                 \/ Len(sess') = Len(sess) + 1
                 \/ /\ poll_sess' = poll_sess
                    /\ poll_sess # 0
                    /\ current_poll' = current_poll
                    /\ i \in 0..(Len(current_poll) - 1)
       /\ \A s \in DOMAIN sess :
             (sess[s].phase = "timer" /\ sess'[s].phase = "win") =>
                 /\ sess'[s].rs = poll_sess
                 /\ \E w \in DOMAIN poll_votes :
                       /\ sess'[s].arg = <<current_poll[w + 1].id>>
                       /\ \A i \in DOMAIN poll_votes : poll_votes[i] <= poll_votes[w]]_vars

\* A session was closed, a later one holds the poll and has counted a vote of
\* its own.
C34_Witness ==
    /\ closed # {}
    /\ poll_sess # 0
    /\ poll_sess \notin closed
    /\ Total(poll_votes) = 1
    /\ accepting_votes

\* C35: idle means no open poll: whenever is_processing is false, no votes are
\* accepted and current_poll is None.
C35_IdleMeansNoPoll ==
    ~is_processing => (~accepting_votes /\ current_poll = None)

\* C36: a vote changes a tally only while the voting timer of the session that
\* holds the poll is running: not before start_poll_session has created the
\* timer, and not after the timer has ended its sleep.
C36_VotesOnlyWhileTimerRuns ==
    [][(\E i \in DOMAIN poll_votes \cap DOMAIN poll_votes' : poll_votes'[i] > poll_votes[i]) =>
          (poll_sess # 0 /\ sess[poll_sess].phase = "timer")]_vars

\* C37: a prompt is a candidate of at most one poll session: the candidates of
\* two sessions that were started, on whatever path each of them went, never
\* share a prompt.
C37_CandidateOfOneSession ==
    \A s \in DOMAIN sess : \A t \in DOMAIN sess :
        s # t => sess[s].cand \cap sess[t].cand = {}

\* C38: the worker executes what was validated: the replacement of
\* typographic quotes between validation and execution does not turn an
\* accepted snippet into one that validate_snippet would have rejected, so the
\* text that the worker has compiled and executes is one that validate_snippet
\* accepts.
C38_WorkerRunsWhatWasValidated ==
    (applied.fn = "execute_snippet_subproc" /\ applied.twice = <<"exec">>) =>
        validate_snippet(applied.once)

\* C39: backend votes are deduplicated by voter: once the calls of /vote have
\* been answered, the votes field of every queued submission is the number of
\* distinct users who voted for it.
C39_VotesCountDistinctVoters ==
    (\A t \in SubmitThreads : intake.thr[t].pc = "idle") =>
        \A sid \in Queued :
            SUBMISSIONS[sid].votes = IF sid \in DOMAIN VOTES THEN Cardinality(VOTES[sid]) ELSE 0

\* C40: a call of start_poll_session that finds no chat channel leaves no
\* poll behind: is_processing and accepting_votes are false, and current_poll
\* and poll_votes hold no candidate of the aborted start.
C40_AbortedStartLeavesNoPoll ==
    [][(Len(sess') = Len(sess) + 1 /\ sess'[Len(sess')].phase = "aborted") =>
          /\ ~is_processing'
          /\ ~accepting_votes'
          /\ Ids(current_poll') \cap sess'[Len(sess')].cand = {}
          /\ DOMAIN poll_votes' = {}]_vars
====
